---- MODULE Spec2Model ----
(***************************************************************************)
(* StatusbarLog: the sink registry (sink.cc) and the statusbar registry    *)
(* with the log facade (statusbarlog.cc), modelled call by call.           *)
(*                                                                         *)
(* Every public entry point is one action.  A call takes its handle        *)
(* argument by value from the whole handle domain (a caller can pass a     *)
(* fresh, a live, a stale or an overwritten handle), and the handle the    *)
(* call leaves in the caller's struct is recorded in last.hout.            *)
(* Slot i of a C++ registry is element i+1 of the TLA+ sequence.           *)
(*                                                                         *)
(* ThreadSpec runs Log and the statusbar calls in several threads, lock    *)
(* step by lock step, with the mutexes of statusbarlog.cc.                 *)
(* SinkThreadSpec does the same for SinkWrite and FlushSinkHandle on two    *)
(* sinks, with the mutexes of sink.cc.                                     *)
(***************************************************************************)
EXTENDS Integers, Sequences, FiniteSets, TLC

VARIABLES
    sink_registry,        \* _sink_registry: sequence of Sink records
    sink_free_handles,    \* _sink_free_handles
    sink_handle_id_count, \* _sink_handle_id_count (IdBits wide, unsigned)
    statusbar_registry,        \* _statusbar_registry: sequence of Statusbar records
    statusbar_free_handles,    \* _statusbar_free_handles
    statusbar_handle_id_count, \* _statusbar_handle_id_count (IdBits wide, unsigned)
    wrapped,              \* which id counters have overflowed so far (wrap warning was issued)
    env,                  \* the terminal: which of stdout/stderr is a tty, stdout's columns
    last,                 \* the most recent call: operation, arguments, status, handle left to the caller
    out,                  \* what the most recent call (or thread step) wrote, in order
    thr,                  \* per thread: the call it is in, where it is in it, its locals
    mutex,                \* per mutex: the thread that owns it, 0 when free
    running               \* the thread that took the most recent step, 0 for the single caller

vars == << sink_registry, sink_free_handles, sink_handle_id_count,
           statusbar_registry, statusbar_free_handles, statusbar_handle_id_count,
           wrapped, env, last, out, thr, mutex, running >>

sinkVars == << sink_registry, sink_free_handles, sink_handle_id_count >>
barVars  == << statusbar_registry, statusbar_free_handles, statusbar_handle_id_count >>
thrVars  == << thr, mutex, running >>

----------------------------------------------------------------------------
(* Bounds and constants *)

IdBits == 2                     \* width of the unsigned id counters in the model
IdMod == 2 ^ IdBits
kMaxSinkHandles == 2            \* sink.h: kMaxSinkHandles, scaled down
kMaxStatusbarHandles == 2       \* statusbarlog.h: kMaxStatusbarHandles, scaled down
kMaxPrefixLength == 4           \* statusbarlog.h: kMaxPrefixLength, scaled down
kMaxPostfixLength == 4          \* statusbarlog.h: kMaxPostfixLength, scaled down
kMaxBarWidth == 5               \* statusbarlog.h: kMaxBarWidth, scaled down
SizeMax == 9                    \* stands for SIZE_MAX: an index no registry reaches
NarrowCols == 12                \* a terminal too narrow for any bar line of the model
DefaultCols == 80               \* _GetTerminalWidth: width = 80 on failure
IntMax == 1000                  \* stands for INT_MAX: longer than any line of the model
MaxSinkIssued == 1              \* sinks the caller of Spec creates in one run
MaxSpinTotal == 1               \* spinner steps after which the caller of Spec stops updating
MaxThreads == 2                 \* threads that call the library at the same time
MaxThreadCalls == 1             \* calls one thread makes in one run
MaxSinkThreadCalls == 2         \* sink calls one thread makes in one run
kMaxLogLength == 4              \* statusbarlog.h: kMaxLogLength, scaled down
kMaxFilenameLength == 5         \* statusbarlog.h: kMaxFilenameLength, scaled down

kStatusbarLogSuccess == 0
Crash == -99                    \* undefined behaviour that ends the process (null / out-of-range access)
Throw == -98                    \* std::system_error leaving the call (unlock of a lock not owned)

kLogLevelOff == 0
kLogLevelErr == 1
kLogLevelWrn == 2
kLogLevelInf == 3
kLogLevelDbg == 4
kLogLevel == 3                  \* the configured threshold (kLogLevelInf in the test build)

Cout == -1                      \* destination of writes that go to std::cout / printf

----------------------------------------------------------------------------
(* Handles *)

\* SinkHandle() / StatusbarHandle(): the value-initialised handle
NullHandle == [idx |-> 0, id |-> 0, valid |-> FALSE]

SinkIdxDom == (0 .. kMaxSinkHandles - 1) \cup {SizeMax}
BarIdxDom  == (0 .. kMaxStatusbarHandles - 1) \cup {SizeMax}
IdDom      == 0 .. (IdMod - 1)

SinkHandleDom == [idx : SinkIdxDom, id : IdDom, valid : BOOLEAN]
BarHandleDom  == [idx : BarIdxDom, id : IdDom, valid : BOOLEAN]

\* unsigned increment of an id counter
IncId(c) == (c + 1) % IdMod

----------------------------------------------------------------------------
(* Sink registry: validation *)

\* a registry slot whose unique_ptr is null (moved from and never restored)
NullSink == [ptr |-> FALSE, type |-> "kSinkInvalid", outp |-> "null", owned |-> FALSE, fd |-> -1, id |-> 0]

MkSink(type, outp, owned, fd, id) ==
    [ptr |-> TRUE, type |-> type, outp |-> outp, owned |-> owned, fd |-> fd, id |-> id]

\* IsValidSinkHandle; dereferencing a null slot is undefined behaviour
IsValidSinkHandleIn(reg, h) ==
    IF ~h.valid THEN -1
    ELSE IF h.idx >= Len(reg) \/ h.idx = SizeMax THEN -2
    ELSE IF ~reg[h.idx + 1].ptr THEN Crash
    ELSE IF h.id # reg[h.idx + 1].id THEN -3
    ELSE IF h.id = 0 THEN -4
    ELSE kStatusbarLogSuccess

IsValidSinkHandle(h) == IsValidSinkHandleIn(sink_registry, h)

\* IsValidSinkHandleVerbose: the same code (anything else would be -5), plus a warning on std::cout
IsValidSinkHandleVerbose(h) ==
    LET v == IsValidSinkHandle(h)
    IN IF v \in {-1, -2, -3, -4, kStatusbarLogSuccess, Crash} THEN v ELSE -5

\* variant: the handle is cleared before it is looked at
ValidateSinkCreationClearing(h) ==
    LET err == IsValidSinkHandle(h)
        cleared == [h EXCEPT !.valid = FALSE, !.id = 0]
    IN IF err = Crash THEN [err |-> Crash, h |-> h]
       ELSE IF err = kStatusbarLogSuccess THEN [err |-> -1, h |-> cleared]
       ELSE IF Len(sink_registry) - Len(sink_free_handles) >= kMaxSinkHandles
            THEN [err |-> -2, h |-> cleared]
       ELSE [err |-> kStatusbarLogSuccess, h |-> cleared]

\* _ValidateSinkCreation: status, and the handle as it leaves it
ValidateSinkCreation(h) ==
    LET err == IsValidSinkHandle(h)
        cleared == [h EXCEPT !.valid = FALSE, !.id = 0]
    IN IF err = Crash THEN [err |-> Crash, h |-> h]
       ELSE IF err = kStatusbarLogSuccess THEN [err |-> -1, h |-> h]
       ELSE IF Len(sink_registry) - Len(sink_free_handles) >= kMaxSinkHandles
            THEN [err |-> -2, h |-> cleared]
       ELSE [err |-> kStatusbarLogSuccess, h |-> cleared]

----------------------------------------------------------------------------
(* Text: a std::string is a sequence of byte values *)

Ellipsis == << 46, 46, 46 >>            \* "..."
Replacement == << 239, 191, 189 >>      \* the bytes of U+FFFD appended for a control byte

\* the loop body of _SanitizeString: what one input byte appends
SanitizeByte(c) ==
    IF c = 9 \/ (c >= 32 /\ c <= 126) THEN << c >>
    ELSE IF c < 32 \/ c = 127 THEN Replacement
    ELSE << c >>

RECURSIVE SanitizeString(_)
SanitizeString(s) ==
    IF s = << >> THEN << >>
    ELSE SanitizeByte(Head(s)) \o SanitizeString(Tail(s))

\* the loop body of _SanitizeStringWithNewline: as SanitizeByte, and '\n' is kept
SanitizeByteWithNewline(c) ==
    IF c = 10 \/ c = 9 \/ (c >= 32 /\ c <= 126) THEN << c >>
    ELSE IF c < 32 \/ c = 127 THEN Replacement
    ELSE << c >>

RECURSIVE SanitizeStringWithNewline(_)
SanitizeStringWithNewline(s) ==
    IF s = << >> THEN << >>
    ELSE SanitizeByteWithNewline(Head(s)) \o SanitizeStringWithNewline(Tail(s))

\* resize(max - 3) + "..." when longer than max (CreateStatusbarHandle, before sanitising)
CapLength(s, max) ==
    IF Len(s) > max THEN SubSeq(s, 1, max - 3) \o Ellipsis ELSE s

Min(a, b) == IF a < b THEN a ELSE b

Rep(n, c) == [k \in 1 .. n |-> c]

RECURSIVE Digits(_)
Digits(n) == IF n < 10 THEN << 48 + n >> ELSE Digits(n \div 10) \o << 48 + (n % 10) >>

\* the double that is no number (the percentages of the model are whole numbers
\* otherwise); every comparison with it is false
NaN == 1000

\* std::fixed << std::setprecision(2) << std::setw(6) << percent, for a whole percent >= 0
\* and for NaN ("   nan")
PercentText(p) ==
    LET t == IF p = NaN THEN << 110, 97, 110 >> ELSE Digits(p) \o << 46, 48, 48 >>
    IN IF Len(t) < 6 THEN Rep(6 - Len(t), 32) \o t ELSE t

\* kFilename of statusbarlog.cc ("statusbarlog.cc", shortened as the caps are)
kFilename == << 115, 98, 108 >>

\* the formatted text of the library's own error and warning messages
OwnMessage == << 70, 97 >>

\* LogV's switch over the level: ERROR, WARNING, INFO, DEBUG, else ""
LevelPrefix(log_level) ==
    IF log_level = kLogLevelErr THEN << 69, 82, 82, 79, 82 >>
    ELSE IF log_level = kLogLevelWrn THEN << 87, 65, 82, 78, 73, 78, 71 >>
    ELSE IF log_level = kLogLevelInf THEN << 73, 78, 70, 79 >>
    ELSE IF log_level = kLogLevelDbg THEN << 68, 69, 66, 85, 71 >>
    ELSE << >>

\* vsnprintf into a buffer of min(size, kMaxLogLength) + 1 bytes, then sanitised;
\* formatted is the text the format and its arguments expand to (without NUL bytes)
LogMessage(formatted) ==
    SanitizeStringWithNewline(SubSeq(formatted, 1, Min(Len(formatted), kMaxLogLength)))

\* variant: the filename is sanitised and never cut
LogFilenameUncut(filename) == SanitizeStringWithNewline(filename)

\* the filename sanitised, then cut to kMaxFilenameLength - 3 bytes and "..." when longer
LogFilename(filename) == CapLength(SanitizeStringWithNewline(filename), kMaxFilenameLength)

\* formatted_message: prefix + " [" + sanitized_filename + "]: " + message + "\n"
FormattedMessage(log_level, filename, formatted) ==
    LevelPrefix(log_level) \o << 32, 91 >> \o LogFilename(filename) \o << 93, 58, 32 >>
        \o LogMessage(formatted) \o << 10 >>

----------------------------------------------------------------------------
(* Output events *)

Ev(k, d, n, txt) == [k |-> k, d |-> d, n |-> n, txt |-> txt]

\* variant: a negative move is dropped
MoveCursorUpOnly(move) == IF move > 0 THEN << Ev("up", Cout, move, << >>) >> ELSE << >>

\* _MoveCursorUp of statusbarlog.cc: writes to std::cout whatever the sink is
MoveCursorUpOut(move) ==
    IF move > 0 THEN << Ev("up", Cout, move, << >>) >>
    ELSE IF move < 0 THEN << Ev("down", Cout, -move, << >>) >>
    ELSE << >>

\* ClearCurrentLine: "\r" and ESC[2K on std::cout
ClearCurrentLineOut == << Ev("clear", Cout, 0, << >>) >>

----------------------------------------------------------------------------
(* The terminal *)

EnvSet ==
    { [outTty |-> TRUE,  errTty |-> TRUE,  cols |-> NarrowCols],
      [outTty |-> FALSE, errTty |-> TRUE,  cols |-> DefaultCols] }

IsATty(fd) == IF fd = 1 THEN env.outTty ELSE IF fd = 2 THEN env.errTty ELSE FALSE

\* sink::SinkIsTty
SinkIsTty(h) ==
    IF IsValidSinkHandleVerbose(h) # kStatusbarLogSuccess THEN FALSE
    ELSE LET s == sink_registry[h.idx + 1]
         IN IF s.fd >= 0 THEN IsATty(s.fd)
            ELSE IF s.outp = "cout" THEN IsATty(1)
            ELSE IF s.outp = "cerr" THEN IsATty(2)
            ELSE FALSE

\* _GetTerminalWidth (Unix branch): ioctl on STDOUT_FILENO
GetTerminalWidth ==
    IF env.outTty THEN [err |-> kStatusbarLogSuccess, width |-> env.cols]
    ELSE [err |-> -2, width |-> DefaultCols]

----------------------------------------------------------------------------
(* Renderer *)

Spinner == << 124, 47, 45, 92 >>        \* | / - \

\* variant: the index is left as it is
SpinnerPhaseKept(spinner_idx) == spinner_idx

\* spinner_idx %= spinner.size(), stored through the reference
SpinnerPhase(spinner_idx) == spinner_idx % 4

\* variant: the fill rounded up
FillCeiling(percent, bar_width) == (percent * bar_width + 99) \div 100

\* floor(percent * bar_width / 100) converted to unsigned int.  The conversion of NaN is
\* undefined: 0 is what the conversion instruction leaves (cvttsd2si, fcvtzu); the
\* outcome in which the process ends is chosen in UpdateStatusbarNaN
Fill(percent, bar_width) == IF percent = NaN THEN 0 ELSE (percent * bar_width) \div 100

\* the untruncated line of one bar
BarLine(percent, bar_width, prefix, postfix, spinner_idx) ==
    LET fill == Fill(percent, bar_width)
        empty == bar_width - fill
    IN prefix \o << 91 >> \o Rep(fill, 35)
       \o (IF empty > 0 THEN << Spinner[(spinner_idx % 4) + 1] >> \o Rep(empty - 1, 32) ELSE << >>)
       \o << 93, 32 >> \o PercentText(percent) \o postfix

\* the error code after the truncation switch
TruncErr(err) == IF err = kStatusbarLogSuccess THEN -3 ELSE IF err = -1 THEN -4 ELSE IF err = -2 THEN -5 ELSE err

\* the percentage check of UpdateStatusbar and _DrawStatusbarComponent:
\* percent > 100.0 || percent < 0.0, false for NaN
PercentOutOfRange(percent) == percent # NaN /\ (percent > 100 \/ percent < 0)

\* std::string::substr(0, count): count is a size_t, so term_width - 1 = -1 is npos and
\* the whole string is kept
Substr(str, count) == IF count < 0 \/ count > Len(str) THEN str ELSE SubSeq(str, 1, count)

\* _DrawStatusbarComponent with the write lock owned.  Callers pass stored or
\* checked percentages; the invalid-percentage branch returns -5.
DrawStatusbarComponent(sh, percent, bar_width, prefix, postfix, spinner_idx, move) ==
    IF PercentOutOfRange(percent)
    THEN [err |-> -5, spin |-> spinner_idx, out |-> << >>]
    ELSE
    LET spin == SpinnerPhase(spinner_idx)
        line == BarLine(percent, bar_width, prefix, postfix, spin)
        tw == IF SinkIsTty(sh) THEN GetTerminalWidth
              ELSE [err |-> kStatusbarLogSuccess, width |-> IntMax]
        cut == Len(line) > tw.width
        shown == IF cut THEN Substr(line, tw.width - 1) ELSE line
        err == IF cut THEN TruncErr(tw.err) ELSE tw.err
    IN [err |-> err, spin |-> spin,
        out |-> MoveCursorUpOut(move) \o ClearCurrentLineOut
                \o << Ev("bar", sh.idx, Len(shown), shown) >>
                \o MoveCursorUpOut(-move)]

----------------------------------------------------------------------------
(* Statusbar registry: validation *)

MkStatusbar(sh, pct, pos, sizes, pre, post, spin, id, rep) ==
    [sink_handle |-> sh, percentages |-> pct, positions |-> pos, bar_sizes |-> sizes,
     prefixes |-> pre, postfixes |-> post, spin_idxs |-> spin, id |-> id,
     error_reported |-> rep]

\* _IsValidStatusbarHandle
IsValidStatusbarHandleIn(reg, h) ==
    IF ~h.valid THEN -1
    ELSE IF h.idx >= Len(reg) \/ h.idx = SizeMax THEN -2
    ELSE IF h.id # reg[h.idx + 1].id THEN -3
    ELSE IF h.id = 0 THEN -4
    ELSE kStatusbarLogSuccess

IsValidStatusbarHandle(h) == IsValidStatusbarHandleIn(statusbar_registry, h)

----------------------------------------------------------------------------
(* Log facade *)

\* the bars of the registry in LogV's loop order: << slot, bar >>
RECURSIVE BarPairs(_, _, _)
BarPairs(reg, i, j) ==
    IF i > Len(reg) THEN << >>
    ELSE IF j > Len(reg[i].positions) THEN BarPairs(reg, i + 1, 1)
    ELSE << << i, j >> >> \o BarPairs(reg, i, j + 1)

\* LogV's move: the largest position over every slot of the registry, 0 without bars
MaxPosition(reg) ==
    LET rows == { reg[p[1]].positions[p[2]] : p \in { BarPairs(reg, 1, 1)[k] : k \in 1 .. Len(BarPairs(reg, 1, 1)) } }
    IN IF rows = {} THEN 0 ELSE CHOOSE m \in rows : \A r \in rows : r <= m

\* variant: truncation is critical too
EveryErrorCritical(bar_err_code) == TRUE

\* which _DrawStatusbarComponent codes LogV treats as critical
IsCriticalError(bar_err_code) == bar_err_code # -3

\* one turn of LogV's redraw loop, for the bar pair = << slot, bar >>: the status of the
\* draw, whether LogV gives up on it, the registry afterwards and what was written
RedrawOne(reg, sh, pair) ==
    LET i == pair[1]
        j == pair[2]
        sb == reg[i]
        d == DrawStatusbarComponent(sh, sb.percentages[j], sb.bar_sizes[j], sb.prefixes[j],
                                    sb.postfixes[j], sb.spin_idxs[j], sb.positions[j])
        reg1 == [reg EXCEPT ![i].spin_idxs[j] = d.spin]
        critical == d.err # kStatusbarLogSuccess /\ ~sb.error_reported /\ IsCriticalError(d.err)
    IN [err |-> d.err, critical |-> critical,
        reg |-> IF critical THEN [reg1 EXCEPT ![i].error_reported = TRUE] ELSE reg1,
        out |-> d.out]

\* LogV's redraw loop from the k-th bar on: status, registry and output so far
RECURSIVE LogRedraw(_, _, _, _, _)
LogRedraw(reg, sh, pairs, k, acc) ==
    IF k > Len(pairs) THEN [ret |-> kStatusbarLogSuccess, reg |-> reg, out |-> acc]
    ELSE LET i == pairs[k][1]
             j == pairs[k][2]
             sb == reg[i]
             d == DrawStatusbarComponent(sh, sb.percentages[j], sb.bar_sizes[j], sb.prefixes[j],
                                         sb.postfixes[j], sb.spin_idxs[j], sb.positions[j])
             reg1 == [reg EXCEPT ![i].spin_idxs[j] = d.spin]
         IN IF d.err # kStatusbarLogSuccess /\ ~sb.error_reported /\ IsCriticalError(d.err)
            THEN [ret |-> d.err - 5,
                  reg |-> [reg1 EXCEPT ![i].error_reported = TRUE],
                  out |-> acc \o d.out \o << Ev("printf", Cout, d.err, << >>) >>]
            ELSE LogRedraw(reg1, sh, pairs, k + 1, acc \o d.out)

\* variant: no level is below the threshold
NeverBelowThreshold(log_level) == FALSE

\* LogV's first line: the level is below the configured threshold
BelowThreshold(log_level) == log_level > kLogLevel

\* what LogV writes before the redraw loop: up to the row above the bars, the line, back
LogHead(log_level, filename, sh, formatted, reg) ==
    LET statusbars_active == Len(reg) > 0
        move == IF statusbars_active THEN MaxPosition(reg) ELSE 0
    IN MoveCursorUpOut(move)
       \o (IF statusbars_active THEN << Ev("printf", Cout, 0, << >>) >> ELSE << >>)
       \o << Ev("log", sh.idx, log_level, FormattedMessage(log_level, filename, formatted)) >>
       \o MoveCursorUpOut(-move)

\* LogV on the statusbar registry reg: status, registry afterwards, output
LogV(log_level, filename, sh, formatted, reg) ==
    IF BelowThreshold(log_level) THEN [ret |-> kStatusbarLogSuccess, reg |-> reg, out |-> << >>]
    ELSE LET err == IsValidSinkHandleVerbose(sh)   \* get_mutex_ptr
         IN IF err # kStatusbarLogSuccess
            THEN [ret |-> err, reg |-> reg, out |-> << Ev("warn", Cout, err, << >>) >>]
            ELSE LET statusbars_active == Len(reg) > 0
                     move == IF statusbars_active THEN MaxPosition(reg) ELSE 0
                     head == MoveCursorUpOut(move)
                             \o (IF statusbars_active THEN << Ev("printf", Cout, 0, << >>) >> ELSE << >>)
                             \o << Ev("log", sh.idx, log_level, FormattedMessage(log_level, filename, formatted)) >>
                             \o MoveCursorUpOut(-move)
                 IN IF statusbars_active
                    THEN LogRedraw(reg, sh, BarPairs(reg, 1, 1), 1, head)
                    ELSE [ret |-> kStatusbarLogSuccess, reg |-> reg, out |-> head]

\* a second log call after a first one (both outputs, the registry threaded through)
LogThen(first, log_level, sh) ==
    LET second == LogV(log_level, kFilename, sh, OwnMessage, first.reg)
    IN [ret |-> second.ret, reg |-> second.reg, out |-> first.out \o second.out]

----------------------------------------------------------------------------
(* The record of the most recent call *)

Call(op, ret, hin, hout, sh, bidx, pct, lens) ==
    [op |-> op, ret |-> ret, hin |-> hin, hout |-> hout, sh |-> sh,
     bidx |-> bidx, pct |-> pct, lens |-> lens]

NoCall == Call("none", kStatusbarLogSuccess, NullHandle, NullHandle, NullHandle, 0, 0, << >>)

\* the caller is between two calls (it makes one call at a time)
Idle == last = NoCall

----------------------------------------------------------------------------
(* Threads and mutexes *)

Threads == 1 .. MaxThreads

\* the write mutex of the sink the threads share, _statusbar_registry_mutex and
\* _statusbar_id_count_mutex.  _sink_registry_mutex is taken and released inside
\* SinkWrite, SinkIsTty and get_mutex_ptr, which take no other mutex while they own
\* it, so it is part of the step that calls them.
Mutexes == { "write", "registry", "id_count" }

\* a thread between two calls; h is the StatusbarHandle struct the thread passes
ThreadAt(h, calls) ==
    [op |-> "none", pc |-> "idle", h |-> h, sh |-> NullHandle, idx |-> 0, pct |-> 0,
     level |-> 0, k |-> 0, cont |-> << >>, ret |-> kStatusbarLogSuccess,
     dangling |-> FALSE, calls |-> calls]

NoOwner == [m \in Mutexes |-> 0]

----------------------------------------------------------------------------
(* Sink registry: operations *)

\* _sink_handle_id_count++ and the wrap branch of CreateSinkStdout (increments once more)
NextSinkIdStdout(c) == IF IncId(c) = 0 THEN IncId(IncId(c)) ELSE IncId(c)

\* _sink_handle_id_count++ of CreateSinkFile / CreateSinkOstream (the wrap branch only warns)
NextSinkIdNoSkip(c) == IncId(c)

\* the slot a new sink goes to: the back of the free list, else a new slot at the end
SinkSlotFor(free, reg) == IF free # << >> THEN free[Len(free)].idx ELSE Len(reg)

\* handle.idx after CreateSinkStdout: set in both branches
SinkIdxStdout(h, free, reg) == SinkSlotFor(free, reg)

\* handle.idx after CreateSinkFile / CreateSinkOstream: set only when a free slot is reused
SinkIdxNoAppend(h, free, reg) == IF free # << >> THEN free[Len(free)].idx ELSE h.idx

\* the registry with the sink stored in its slot
StoreSink(reg, free, sink) ==
    IF free # << >> THEN [reg EXCEPT ![free[Len(free)].idx + 1] = sink] ELSE Append(reg, sink)

\* variant: the free list gives up its oldest entry
PopFront(q) == IF q # << >> THEN Tail(q) ELSE q

\* pop_back of a free list
PopBack(q) == IF q # << >> THEN SubSeq(q, 1, Len(q) - 1) ELSE q

\* the common tail of the three creators once the id is issued and the stream is there
SinkCreated(op, hin, h, id, idx, sink) ==
    /\ sink_registry' = StoreSink(sink_registry, sink_free_handles, sink)
    /\ sink_free_handles' = PopBack(sink_free_handles)
    /\ sink_handle_id_count' = id
    /\ wrapped' = [wrapped EXCEPT !.sink = @ \/ IncId(sink_handle_id_count) = 0]
    /\ last' = Call(op, kStatusbarLogSuccess, hin, [idx |-> idx, id |-> id, valid |-> TRUE],
                    NullHandle, 0, 0, << >>)
    /\ out' = << >>

\* a creator that stops in _ValidateSinkCreation
SinkCreationRefused(op, hin, v) ==
    /\ UNCHANGED << sinkVars, wrapped >>
    /\ last' = Call(op, v.err, hin, v.h, NullHandle, 0, 0, << >>)
    /\ out' = IF v.err = Crash THEN << >> ELSE << Ev("cout", Cout, v.err, << >>) >>

CreateSinkStdout(h) ==
    /\ Idle
    /\ LET v == ValidateSinkCreation(h)
           id == NextSinkIdStdout(sink_handle_id_count)
       IN IF v.err # kStatusbarLogSuccess
          THEN SinkCreationRefused("CreateSinkStdout", h, v)
          ELSE SinkCreated("CreateSinkStdout", h, v.h, id,
                           SinkIdxStdout(v.h, sink_free_handles, sink_registry),
                           MkSink("kSinkStdout", "cout", FALSE, 1, id))
    /\ UNCHANGED << barVars, env, thrVars >>

\* open: 0 the file opens, -3 it does not, -4 opening throws
CreateSinkFile(h, open) ==
    /\ Idle
    /\ LET v == ValidateSinkCreation(h)
           id == NextSinkIdNoSkip(sink_handle_id_count)
       IN IF v.err # kStatusbarLogSuccess
          THEN SinkCreationRefused("CreateSinkFile", h, v)
          ELSE IF open # 0
          THEN /\ UNCHANGED << sink_registry, sink_free_handles >>
               /\ sink_handle_id_count' = id
               /\ wrapped' = [wrapped EXCEPT !.sink = @ \/ id = 0]
               /\ last' = Call("CreateSinkFile", open, h, v.h, NullHandle, 0, 0, << >>)
               /\ out' = << >>
          ELSE SinkCreated("CreateSinkFile", h, v.h, id,
                           SinkIdxNoAppend(v.h, sink_free_handles, sink_registry),
                           MkSink("kSinkFileOwned", "file", TRUE, -1, id))
    /\ UNCHANGED << barVars, env, thrVars >>

\* os: "cout", "cerr" or "other" (any other stream)
CreateSinkOstream(h, os) ==
    /\ Idle
    /\ LET v == ValidateSinkCreation(h)
           id == NextSinkIdNoSkip(sink_handle_id_count)
           fd == IF os = "cout" THEN 1 ELSE IF os = "cerr" THEN 2 ELSE -1
       IN IF v.err # kStatusbarLogSuccess
          THEN SinkCreationRefused("CreateSinkOstream", h, v)
          ELSE SinkCreated("CreateSinkOstream", h, v.h, id,
                           SinkIdxNoAppend(v.h, sink_free_handles, sink_registry),
                           MkSink("kSinkOstreamWrapped", os, FALSE, fd, id))
    /\ UNCHANGED << barVars, env, thrVars >>

\* the slot DestroySinkHandle leaves behind when it runs to the end
DestroyedSink == MkSink("kSinkInvalid", "null", FALSE, -1, 0)

\* closeOk: whether closing an owned file leaves the stream good
DestroySinkHandle(h, closeOk) ==
    /\ Idle
    /\ LET err == IsValidSinkHandleVerbose(h)
           cleared == [h EXCEPT !.valid = FALSE, !.id = 0]
       IN IF err # kStatusbarLogSuccess
          THEN /\ UNCHANGED sinkVars
               /\ last' = Call("DestroySinkHandle", err, h, h, NullHandle, 0, 0, << >>)
               /\ out' = IF err = Crash THEN << >> ELSE << Ev("cout", Cout, err, << >>) >>
          ELSE IF sink_registry[h.idx + 1].owned /\ ~closeOk
          THEN /\ sink_registry' = [sink_registry EXCEPT ![h.idx + 1] = NullSink]
               /\ UNCHANGED << sink_free_handles, sink_handle_id_count >>
               /\ last' = Call("DestroySinkHandle", -6, h, h, NullHandle, 0, 0, << >>)
               /\ out' = << >>
          ELSE /\ sink_registry' = [sink_registry EXCEPT ![h.idx + 1] = DestroyedSink]
               /\ sink_free_handles' = Append(sink_free_handles, cleared)
               /\ UNCHANGED sink_handle_id_count
               /\ last' = Call("DestroySinkHandle", kStatusbarLogSuccess, h, cleared, NullHandle, 0, 0, << >>)
               /\ out' = << >>
    /\ UNCHANGED << barVars, wrapped, env, thrVars >>

\* _FlushSink on a slot: fd-backed sinks are left alone, else -1 for a stream that is not
\* good(), else flush and -2 when the stream is not good() afterwards.
\* good_before, good_after: what out->good() answers before and after the flush
FlushSink(sink, good_before, good_after) ==
    IF sink.fd >= 0 THEN kStatusbarLogSuccess
    ELSE IF ~good_before THEN -1
    ELSE IF good_after THEN 0 ELSE -2

\* FlushSinkHandle: the validation code, else _FlushSink's code plus 5, else success
FlushSinkHandle(h, good_before, good_after) ==
    /\ Idle
    /\ LET err == IsValidSinkHandleVerbose(h)
           flushed == FlushSink(sink_registry[h.idx + 1], good_before, good_after)
           ret == IF err # kStatusbarLogSuccess THEN err
                  ELSE IF flushed # kStatusbarLogSuccess THEN flushed + 5
                  ELSE kStatusbarLogSuccess
       IN /\ last' = Call("FlushSinkHandle", ret, h, h, NullHandle,
                          IF good_before THEN 1 ELSE 0, IF good_after THEN 1 ELSE 0, << >>)
          /\ out' = IF err = Crash THEN << >>
                    ELSE IF err # kStatusbarLogSuccess THEN << Ev("cout", Cout, err, << >>) >>
                    ELSE IF sink_registry[h.idx + 1].fd < 0 /\ good_before
                         THEN << Ev("flush", h.idx, 0, << >>) >>
                    ELSE << >>
    /\ UNCHANGED << sinkVars, barVars, wrapped, env, thrVars >>

\* the bytes MoveCursorUp builds: ESC [ move A for a move up, -move newlines for a move down
CursorSeq(move) ==
    IF move > 0 THEN << 27, 91 >> \o Digits(move) \o << 65 >> ELSE Rep(-move, 10)

\* what SinkWrite(handle, buf, len) does with len > 0 on the validated slot of a sink
\* without descriptor: -3 and nothing when the stream is not good(), else the bytes go to
\* the stream buffer (io = -3: the stream is not good())
SinkWriteOut(h, buf, io) ==
    IF io = -3 THEN << >> ELSE << Ev("write", h.idx, Len(buf), buf) >>

\* sink::MoveCursorUp.  io is what the operating system does to the call: 0 nothing goes
\* wrong, -7 ::write on the sink's descriptor fails, -3 the file stream is not good(),
\* -8 the file cannot be opened for reading, -9 resize_file throws.
MoveCursorUpResult(h, move, io) ==
    LET valid == IsValidSinkHandle(h)
        s == sink_registry[h.idx + 1]
        seq == CursorSeq(move)
    IN IF move = 0 THEN [ret |-> kStatusbarLogSuccess, out |-> << >>]
       ELSE IF valid # kStatusbarLogSuccess THEN [ret |-> valid, out |-> << >>]
       ELSE IF s.fd >= 0      \* Case 1
       THEN IF io = -7 THEN [ret |-> -7, out |-> << >>]
            ELSE [ret |-> kStatusbarLogSuccess, out |-> << Ev("write", h.idx, Len(seq), seq) >>]
       ELSE IF s.type = "kSinkFileOwned" /\ move > 0      \* Case 2, up: cut the last lines off
       THEN IF io = -8 THEN [ret |-> -8, out |-> << Ev("flush", h.idx, 0, << >>) >>]
            ELSE IF io = -9 THEN [ret |-> -9, out |-> << Ev("flush", h.idx, 0, << >>) >>]
            ELSE [ret |-> kStatusbarLogSuccess,
                  out |-> << Ev("flush", h.idx, 0, << >>), Ev("truncate", h.idx, move, << >>) >>]
       ELSE \* Case 2, down: SinkWriteStr, then on to Case 3.  Case 3: s->out of a live sink
            \* is not null, and ::write(s->fd, ..) with s->fd = -1 fails
            [ret |-> -7,
             out |-> IF s.type = "kSinkFileOwned" THEN SinkWriteOut(h, Rep(-move, 10), io) ELSE << >>]

MoveCursorUp(h, move, io) ==
    /\ Idle
    /\ LET r == MoveCursorUpResult(h, move, io)
       IN /\ last' = Call("MoveCursorUp", r.ret, h, h, NullHandle, io, move, << >>)
          /\ out' = r.out
    /\ UNCHANGED << sinkVars, barVars, wrapped, env, thrVars >>

----------------------------------------------------------------------------
(* Statusbar registry: operations *)

\* the result of a call on the statusbar side
Res(ret, h, reg, free, count, wrap, o) ==
    [ret |-> ret, h |-> h, reg |-> reg, free |-> free, count |-> count, wrap |-> wrap, out |-> o]

\* a call that returns ret having changed nothing but what its log calls changed
Refused(ret, h, log) ==
    Res(ret, h, log.reg, statusbar_free_handles, statusbar_handle_id_count, FALSE, log.out)

NoLog == [ret |-> kStatusbarLogSuccess, reg |-> statusbar_registry, out |-> << >>]
CoutOnly(code) == [ret |-> kStatusbarLogSuccess, reg |-> statusbar_registry,
                   out |-> << Ev("cout", Cout, code, << >>) >>]

\* variant: an error log whose redraw advances every spinner
LogErrSpinning(sh, reg) ==
    LET l == LogV(kLogLevelErr, kFilename, sh, OwnMessage, reg)
    IN [l EXCEPT !.reg = [i \in 1 .. Len(l.reg) |->
                            [l.reg[i] EXCEPT !.spin_idxs = [j \in 1 .. Len(@) |-> (@[j] + 1) % 4]]]]

LogErr(sh, reg) == LogV(kLogLevelErr, kFilename, sh, OwnMessage, reg)
LogWrn(sh, reg) == LogV(kLogLevelWrn, kFilename, sh, OwnMessage, reg)

\* variant: a size check that leaves out the postfixes
SizesDifferButPostfixes(positions, bar_sizes, prefixes, postfixes) ==
    \/ Len(positions) # Len(bar_sizes)
    \/ Len(bar_sizes) # Len(prefixes)

\* the size check of CreateStatusbarHandle
SizesDiffer(positions, bar_sizes, prefixes, postfixes) ==
    \/ Len(positions) # Len(bar_sizes)
    \/ Len(bar_sizes) # Len(prefixes)
    \/ Len(prefixes) # Len(postfixes)

\* variant: capacity counted as the registry's length, freed slots included
StatusbarCapacityByLength(reg, free) == Len(reg) >= kMaxStatusbarHandles

\* the capacity check of CreateStatusbarHandle
StatusbarCapacityReached(reg, free) == Len(reg) - Len(free) >= kMaxStatusbarHandles

\* variant: the counter stays where it is once it has issued an id
SameStatusbarId(c) == IF c = 0 THEN 1 ELSE c

\* _statusbar_handle_id_count++ and once more when it became 0
NextStatusbarId(c) == IF IncId(c) = 0 THEN IncId(IncId(c)) ELSE IncId(c)

\* variant: the handle always gets the index of a new slot at the end
StatusbarSlotAtEnd(free, reg) == Len(reg)

\* the slot a new statusbar goes to
StatusbarSlotFor(free, reg) == IF free # << >> THEN free[Len(free)].idx ELSE Len(reg)

StoreStatusbar(reg, free, sb) ==
    IF free # << >> THEN [reg EXCEPT ![free[Len(free)].idx + 1] = sb] ELSE Append(reg, sb)

\* the loop that sanitises prefixes and postfixes and caps the bar sizes
SanitizedPrefixes(prefixes) ==
    [i \in 1 .. Len(prefixes) |-> SanitizeString(CapLength(prefixes[i], kMaxPrefixLength))]
SanitizedPostfixes(prefixes, postfixes) ==
    [i \in 1 .. Len(prefixes) |-> SanitizeString(CapLength(postfixes[i], kMaxPostfixLength))]
SanitizedBarSizes(prefixes, bar_sizes) ==
    [i \in 1 .. Len(prefixes) |-> Min(bar_sizes[i], kMaxBarWidth)]

\* the first draw of every bar of a new statusbar, at percent 0
RECURSIVE DrawAll(_, _, _)
DrawAll(sh, sb, k) ==
    IF k > Len(sb.positions) THEN << >>
    ELSE DrawStatusbarComponent(sh, 0, sb.bar_sizes[k], sb.prefixes[k], sb.postfixes[k],
                                sb.spin_idxs[k], sb.positions[k]).out
         \o DrawAll(sh, sb, k + 1)

CreateStatusbarResult(h, sh, positions, bar_sizes, prefixes, postfixes) ==
    LET cleared == [h EXCEPT !.valid = FALSE, !.id = 0]
        wrap == IncId(statusbar_handle_id_count) = 0
        warn == IF wrap THEN LogWrn(sh, statusbar_registry) ELSE NoLog
        id == NextStatusbarId(statusbar_handle_id_count)
        num_bars == Len(positions)
        sb == MkStatusbar(sh, [i \in 1 .. num_bars |-> 0], positions,
                          SanitizedBarSizes(prefixes, bar_sizes), SanitizedPrefixes(prefixes),
                          SanitizedPostfixes(prefixes, postfixes), [i \in 1 .. num_bars |-> 0],
                          id, FALSE)
        idx == StatusbarSlotFor(statusbar_free_handles, warn.reg)
    IN IF IsValidSinkHandle(sh) = Crash THEN Refused(Crash, h, NoLog)
       ELSE IF IsValidSinkHandle(sh) # kStatusbarLogSuccess THEN Refused(-1, h, CoutOnly(-1))
       ELSE IF IsValidStatusbarHandle(h) = kStatusbarLogSuccess
            THEN Refused(-2, h, LogErr(sh, statusbar_registry))
       ELSE IF SizesDiffer(positions, bar_sizes, prefixes, postfixes)
            THEN Refused(-3, cleared, LogErr(sh, statusbar_registry))
       ELSE IF StatusbarCapacityReached(statusbar_registry, statusbar_free_handles)
            THEN Refused(-4, cleared, LogErr(sh, statusbar_registry))
       ELSE Res(kStatusbarLogSuccess, [idx |-> idx, id |-> id, valid |-> TRUE],
                StoreStatusbar(warn.reg, statusbar_free_handles, sb),
                PopBack(statusbar_free_handles), id, wrap,
                warn.out \o DrawAll(sh, sb, 1))

\* variant: the sink handle stays in the slot
ClearedStatusbarKeepingSink(sb) ==
    MkStatusbar(sb.sink_handle, << >>, << >>, << >>, << >>, << >>, << >>, 0, sb.error_reported)

\* variant: the id is zeroed and the flag is left
InvalidatedKeepingFlag(h) == [h EXCEPT !.id = 0]

\* the caller's handle after DestroyStatusbarHandle: valid = false, id = 0
Invalidated(h) == [h EXCEPT !.valid = FALSE, !.id = 0]

\* the slot DestroyStatusbarHandle leaves behind (error_reported is not touched)
ClearedStatusbar(sb) ==
    MkStatusbar(NullHandle, << >>, << >>, << >>, << >>, << >>, << >>, 0, sb.error_reported)

RECURSIVE ClearAll(_, _)
ClearAll(sb, k) ==
    IF k > Len(sb.positions) THEN << >>
    ELSE MoveCursorUpOut(sb.positions[k]) \o ClearCurrentLineOut
         \o MoveCursorUpOut(-sb.positions[k]) \o ClearAll(sb, k + 1)

\* what DestroyStatusbarHandle requires of the sink stored in the slot
DestroyNeedsSink(sh) == IsValidSinkHandle(sh)

DestroyStatusbarResult(h) ==
    LET err == IsValidStatusbarHandle(h)
        target == statusbar_registry[h.idx + 1]
        cleared == Invalidated(h)
    IN IF err # kStatusbarLogSuccess THEN Refused(err, h, CoutOnly(err))
       ELSE IF DestroyNeedsSink(target.sink_handle) = Crash THEN Refused(Crash, h, NoLog)
       ELSE IF DestroyNeedsSink(target.sink_handle) # kStatusbarLogSuccess
            THEN Refused(-5, h, CoutOnly(-5))
       ELSE Res(kStatusbarLogSuccess, cleared,
                [statusbar_registry EXCEPT ![h.idx + 1] = ClearedStatusbar(target)],
                Append(statusbar_free_handles, cleared), statusbar_handle_id_count, FALSE,
                ClearAll(target, 1))

\* _IsValidStatusbarHandleVerbose then LogErr, with both locks released
ReportInvalidHandle(sh, reg) == LogThen(LogWrn(sh, reg), kLogLevelErr, sh)

\* the end of UpdateStatusbar after the bar was drawn with status bar_error_code:
\* reports once per statusbar, then unlocks both locks (again, when it has reported)
UpdateFinish(sh, reg, slot, bar_error_code, drawn) ==
    IF bar_error_code # kStatusbarLogSuccess /\ ~reg[slot].error_reported
    THEN LET log == LogErr(sh, [reg EXCEPT ![slot].error_reported = TRUE])
         IN [ret |-> Throw, reg |-> log.reg, out |-> drawn \o log.out]
    ELSE [ret |-> kStatusbarLogSuccess, reg |-> reg, out |-> drawn]

\* sh: the sink handle read from _statusbar_registry[h.idx] before the handle is validated
UpdateStatusbarResult(h, idx, percent, sh) ==
    LET err == IsValidStatusbarHandle(h)
        slot == h.idx + 1
        statusbar == statusbar_registry[slot]
        spin1 == statusbar.spin_idxs[idx + 1] + 1
        d == DrawStatusbarComponent(sh, percent, statusbar.bar_sizes[idx + 1],
                                    statusbar.prefixes[idx + 1], statusbar.postfixes[idx + 1],
                                    spin1, statusbar.positions[idx + 1])
        reg1 == [statusbar_registry EXCEPT ![slot].percentages[idx + 1] = percent,
                                           ![slot].spin_idxs[idx + 1] = d.spin]
    IN IF IsValidSinkHandle(sh) = Crash THEN Refused(Crash, h, NoLog)
       ELSE IF IsValidSinkHandle(sh) # kStatusbarLogSuccess THEN Refused(-1, h, CoutOnly(-1))
       ELSE IF err # kStatusbarLogSuccess
            THEN Refused(err - 2, h, ReportInvalidHandle(sh, statusbar_registry))
       ELSE IF PercentOutOfRange(percent)
            THEN Refused(-7, h, LogErr(sh, statusbar_registry))
       ELSE IF idx >= Len(statusbar.percentages)
            THEN Refused(-8, h, LogErr(sh, statusbar_registry))
       ELSE LET fin == UpdateFinish(sh, reg1, slot, d.err, d.out)
            IN Refused(fin.ret, h, fin)

\* the caller-visible effect of a statusbar call
Returns(op, hin, sh, bidx, pct, lens, r) ==
    /\ statusbar_registry' = r.reg
    /\ statusbar_free_handles' = r.free
    /\ statusbar_handle_id_count' = r.count
    /\ wrapped' = [wrapped EXCEPT !.bar = @ \/ r.wrap]
    /\ last' = Call(op, r.ret, hin, r.h, sh, bidx, pct, lens)
    /\ out' = r.out
    /\ UNCHANGED << sinkVars, env, thrVars >>

CreateStatusbarHandle(h, sh, positions, bar_sizes, prefixes, postfixes) ==
    /\ Idle
    /\ Returns("CreateStatusbarHandle", h, sh, 0, 0,
               << Len(positions), Len(bar_sizes), Len(prefixes), Len(postfixes) >>,
               CreateStatusbarResult(h, sh, positions, bar_sizes, prefixes, postfixes))

DestroyStatusbarHandle(h) ==
    /\ Idle
    /\ Returns("DestroyStatusbarHandle", h, NullHandle, 0, 0, << >>, DestroyStatusbarResult(h))

\* h.idx inside the registry: the sink handle is the slot's
UpdateStatusbar(h, idx, percent) ==
    /\ Idle
    /\ h.idx < Len(statusbar_registry)
    /\ Returns("UpdateStatusbar", h, statusbar_registry[h.idx + 1].sink_handle, idx, percent, << >>,
               UpdateStatusbarResult(h, idx, percent, statusbar_registry[h.idx + 1].sink_handle))

\* h.idx outside the registry: _statusbar_registry[h.idx] is undefined behaviour; the
\* call goes on with whatever sink handle g it reads there, or the process ends
UpdateStatusbarOutOfRange(h, idx, percent, g) ==
    /\ Idle
    /\ h.idx >= Len(statusbar_registry)
    /\ \/ Returns("UpdateStatusbar", h, g, idx, percent, << >>,
                  UpdateStatusbarResult(h, idx, percent, g))
       \/ Returns("UpdateStatusbar", h, g, idx, percent, << >>, Refused(Crash, h, NoLog))

\* variant: a log call whose redraw advances the spinner of every bar
LogAdvancing(log_level, filename, sh, formatted) ==
    /\ Idle
    /\ LET l == LogV(log_level, filename, sh, formatted, statusbar_registry)
           spun == [i \in 1 .. Len(l.reg) |->
                      [l.reg[i] EXCEPT !.spin_idxs = [j \in 1 .. Len(@) |-> (@[j] + 1) % 4]]]
       IN Returns("Log", NullHandle, sh, 0, log_level, << filename, formatted >>,
                  Refused(l.ret, NullHandle, [l EXCEPT !.reg = spun]))

\* last.pct holds the level and last.lens the filename and the formatted message
Log(log_level, filename, sh, formatted) ==
    /\ Idle
    /\ LET l == LogV(log_level, filename, sh, formatted, statusbar_registry)
       IN Returns("Log", NullHandle, sh, 0, log_level, << filename, formatted >>,
                  Refused(l.ret, NullHandle, l))

\* the caller takes the status and goes on; after undefined behaviour ended the
\* process there is nothing to go on with
Return ==
    /\ last # NoCall
    /\ last.ret # Crash
    /\ last' = NoCall
    /\ out' = << >>
    /\ UNCHANGED << sinkVars, barVars, wrapped, env, thrVars >>


----------------------------------------------------------------------------
(* Inputs *)

OneBar  == << << 1 >>, << 3 >>, << << 112 >> >>, << << 113 >> >> >>
TwoBars == << << 2, 1 >>, << 3, 7 >>, << << 1, 97 >>, << 97, 98, 99, 100, 101, 102 >> >>, << << 113 >>, << >> >> >>

\* array arguments of a create (positions, bar sizes, prefixes, postfixes): all four of
\* one length, or one array longer than the other three
CreateArgsIn ==
    { OneBar, TwoBars } \cup { [OneBar EXCEPT ![k] = TwoBars[k]] : k \in 1 .. 4 }

PercentIn   == { -1, 0, 100, 101 }
BarIndexIn  == 0 .. 2
LevelIn     == { kLogLevelErr, kLogLevelInf, kLogLevelDbg }
OstreamIn   == { "cout", "cerr", "other" }
OpenIn      == { 0, -3, -4 }
MoveIn      == { -2, 0, 3 }
IoIn        == { 0, -3, -7, -8, -9 }

\* handles a caller passes: any index and id when flagged valid, id 0 when not
\* (calls read no id of a handle whose valid flag is off)
Passable(dom) == { h \in dom : ~h.valid => h.id = 0 }
PassableSinkHandles == Passable(SinkHandleDom)
PassableBarHandles == Passable(BarHandleDom)

\* the handles of the slots of a registry, as a caller that never writes handle fields holds them
SlotHandles(reg) == { [idx |-> i - 1, id |-> reg[i].id, valid |-> TRUE] : i \in 1 .. Len(reg) }

Init ==
    /\ sink_registry = << >>
    /\ sink_free_handles = << >>
    /\ sink_handle_id_count = 0
    /\ statusbar_registry = << >>
    /\ statusbar_free_handles = << >>
    /\ statusbar_handle_id_count = 0
    /\ wrapped = [sink |-> FALSE, bar |-> FALSE]
    /\ env \in EnvSet
    /\ last = NoCall
    /\ out = << >>
    /\ thr = [t \in Threads |-> ThreadAt(NullHandle, 0)]
    /\ mutex = NoOwner
    /\ running = 0

\* the sink registry on its own, called with every passable handle
SinkNext ==
    \/ Idle /\ \E h \in PassableSinkHandles : CreateSinkStdout(h)
    \/ Idle /\ \E h \in PassableSinkHandles, open \in OpenIn : CreateSinkFile(h, open)
    \/ Idle /\ \E h \in PassableSinkHandles, os \in OstreamIn : CreateSinkOstream(h, os)
    \/ Idle /\ \E h \in PassableSinkHandles, closeOk \in BOOLEAN : DestroySinkHandle(h, closeOk)
    \/ Idle /\ \E h \in PassableSinkHandles, good_before, good_after \in BOOLEAN :
                  FlushSinkHandle(h, good_before, good_after)
    \/ Idle /\ \E h \in PassableSinkHandles, move \in MoveIn, io \in IoIn : MoveCursorUp(h, move, io)
    \/ Return

SinkSpec == Init /\ [][SinkNext]_vars

SinkArgs == SlotHandles(sink_registry) \cup { NullHandle }
BarArgs == SlotHandles(statusbar_registry) \cup { NullHandle }

\* spinner steps the live statusbars have taken together
RECURSIVE SumSeq(_)
SumSeq(q) == IF q = << >> THEN 0 ELSE Head(q) + SumSeq(Tail(q))
RECURSIVE SpinTotal(_, _)
SpinTotal(reg, i) == IF i > Len(reg) THEN 0 ELSE SumSeq(reg[i].spin_idxs) + SpinTotal(reg, i + 1)

\* the caller of Spec stops creating sinks once the id counter reached the cap, and
\* statusbars once their id counter wrapped, but still retries a create with a bound handle
MayCreateSink(h) ==
    IF sink_handle_id_count < MaxSinkIssued THEN TRUE ELSE IsValidSinkHandle(h) = kStatusbarLogSuccess
MayCreateStatusbar(h) ==
    IF ~wrapped.bar THEN TRUE ELSE IsValidStatusbarHandle(h) = kStatusbarLogSuccess
\* ... and stops updating once the spinners advanced MaxSpinTotal times, but still
\* passes a handle, a percentage or a bar index that is refused
MayUpdate(h, idx, percent) ==
    IF SpinTotal(statusbar_registry, 1) < MaxSpinTotal THEN TRUE
    ELSE IF IsValidStatusbarHandle(h) # kStatusbarLogSuccess THEN TRUE
    ELSE IF PercentOutOfRange(percent) THEN TRUE
    ELSE idx >= Len(statusbar_registry[h.idx + 1].percentages)

Next ==
    \/ Idle /\ \E h \in SinkArgs : MayCreateSink(h) /\ CreateSinkStdout(h)
    \/ Idle /\ \E h \in SinkArgs : MayCreateSink(h) /\ CreateSinkFile(h, 0)
    \/ Idle /\ \E h \in SinkArgs : MayCreateSink(h) /\ CreateSinkOstream(h, "cerr")
    \/ Idle /\ \E h \in SlotHandles(sink_registry) : DestroySinkHandle(h, TRUE)
    \/ Idle /\ \E h \in BarArgs : MayCreateStatusbar(h) /\ \E sh \in SinkArgs, a \in CreateArgsIn :
            CreateStatusbarHandle(h, sh, a[1], a[2], a[3], a[4])
    \/ Idle /\ \E h \in PassableBarHandles : DestroyStatusbarHandle(h)
    \/ Idle /\ \E h \in PassableBarHandles, idx \in BarIndexIn, percent \in PercentIn :
            /\ h \in BarArgs \/ (idx = 0 /\ percent = 100)
            /\ MayUpdate(h, idx, percent)
            /\ UpdateStatusbar(h, idx, percent)
    \/ Idle /\ \E h \in PassableBarHandles, g \in SinkArgs : UpdateStatusbarOutOfRange(h, 0, 0, g)
    \/ Idle /\ \E log_level \in LevelIn, sh \in SinkArgs : Log(log_level, kFilename, sh, OwnMessage)
    \/ Return

Spec == Init /\ [][Next]_vars

----------------------------------------------------------------------------
(* UpdateStatusbar with a percentage that is no number *)

\* UpdateStatusbar(h, idx, NAN) with h.idx inside the registry.  The range check lets NaN
\* pass, so a call with a valid handle and a bar index in range stores it and then
\* converts floor(NaN) to unsigned int in the renderer, which is undefined: the bar is
\* drawn with the fill the conversion gives, or the process ends
ConversionOutcomes == { "fill", "crash" }

UpdateStatusbarNaN(h, idx, o) ==
    /\ Idle
    /\ h.idx < Len(statusbar_registry)
    /\ SpinTotal(statusbar_registry, 1) < MaxSpinTotal
    /\ LET slot == h.idx + 1
           statusbar == statusbar_registry[slot]
           sh == statusbar.sink_handle
           converts == /\ IsValidSinkHandle(sh) = kStatusbarLogSuccess
                       /\ IsValidStatusbarHandle(h) = kStatusbarLogSuccess
                       /\ idx < Len(statusbar.percentages)
           reg1 == [statusbar_registry EXCEPT ![slot].percentages[idx + 1] = NaN,
                                              ![slot].spin_idxs[idx + 1] = @ + 1]
       IN IF converts /\ o = "crash"
          THEN Returns("UpdateStatusbar", h, sh, idx, NaN, << >>,
                       Refused(Crash, h, [reg |-> reg1, out |-> << >>]))
          ELSE Returns("UpdateStatusbar", h, sh, idx, NaN, << >>,
                       UpdateStatusbarResult(h, idx, NaN, sh))

\* the statusbar calls on one stdout sink, with percentages that are numbers or not
NanNext ==
    \/ Idle /\ sink_registry = << >> /\ CreateSinkStdout(NullHandle)
    \/ Idle /\ \E h \in BarArgs : MayCreateStatusbar(h) /\ \E sh \in SinkArgs, a \in CreateArgsIn :
            CreateStatusbarHandle(h, sh, a[1], a[2], a[3], a[4])
    \/ Idle /\ \E h \in BarArgs : DestroyStatusbarHandle(h)
    \/ Idle /\ \E h \in BarArgs, idx \in BarIndexIn, percent \in PercentIn :
            /\ h.idx < Len(statusbar_registry)
            /\ MayUpdate(h, idx, percent)
            /\ UpdateStatusbar(h, idx, percent)
    \/ Idle /\ \E h \in BarArgs, idx \in BarIndexIn, o \in ConversionOutcomes :
            UpdateStatusbarNaN(h, idx, o)
    \/ Return

NanSpec == Init /\ [][NanNext]_vars

----------------------------------------------------------------------------
(* The log facade with two sinks *)

MaxLogSinks == 2                \* sinks the caller of LogSpec creates in one run
MaxLogStatusbars == 2           \* statusbars the caller of LogSpec creates in one run

\* filenames: short, longer than kMaxFilenameLength, with a control byte, and one whose
\* replacement bytes straddle the cut
FilenameIn ==
    { kFilename, << 97, 98, 99, 100, 101, 102, 103 >>, << 1, 97 >>, << 97, 1, 98, 99, 100 >> }

\* formatted messages: short, with a line feed, and longer than kMaxLogLength with control bytes
MessageIn ==
    { OwnMessage, << 97, 10, 98 >>, << 1, 97, 98, 99, 100, 101 >> }

LogLevelIn == { kLogLevelOff, kLogLevelErr, kLogLevelWrn, kLogLevelInf, kLogLevelDbg }

\* the caller creates sinks (a stream sink only as the first one, so that every handle it
\* holds has the index of its slot) and statusbars, destroys statusbars and logs; it
\* makes no update
LogNext ==
    \/ Idle /\ sink_handle_id_count < MaxLogSinks /\ CreateSinkStdout(NullHandle)
    \/ Idle /\ sink_registry = << >> /\ CreateSinkOstream(NullHandle, "cerr")
    \/ Idle /\ statusbar_handle_id_count < MaxLogStatusbars
            /\ \E sh \in SlotHandles(sink_registry), a \in { OneBar, TwoBars } :
                  CreateStatusbarHandle(NullHandle, sh, a[1], a[2], a[3], a[4])
    \/ Idle /\ \E h \in SlotHandles(statusbar_registry) : DestroyStatusbarHandle(h)
    \/ Idle /\ \E log_level \in LogLevelIn, filename \in FilenameIn, sh \in SinkArgs,
                   formatted \in MessageIn : Log(log_level, filename, sh, formatted)
    \/ Return

LogSpec == Init /\ [][LogNext]_vars

----------------------------------------------------------------------------
(* Updates without end *)

MaxUpdateStatusbars == 2        \* statusbars the caller of UpdateSpec creates in one run

\* the caller creates one stdout sink and statusbars on it, and then updates their bars
\* any number of times through the handles it was given
UpdateNext ==
    \/ Idle /\ sink_registry = << >> /\ CreateSinkStdout(NullHandle)
    \/ Idle /\ statusbar_handle_id_count < MaxUpdateStatusbars
            /\ \E sh \in SlotHandles(sink_registry), a \in { OneBar, TwoBars } :
                  CreateStatusbarHandle(NullHandle, sh, a[1], a[2], a[3], a[4])
    \/ Idle /\ \E h \in SlotHandles(statusbar_registry), idx \in BarIndexIn, percent \in PercentIn :
                  UpdateStatusbar(h, idx, percent)
    \/ Return

UpdateSpec == Init /\ [][UpdateNext]_vars

----------------------------------------------------------------------------
(* The renderer on its own *)

RenderMaxWidth == 10            \* widest bar rendered in RenderSpec

RenderPercentIn == 0 .. 100
RenderWidthIn == 0 .. RenderMaxWidth
RenderPrefixIn == { << >>, << 112 >>, << 35, 91, 93 >> }       \* "", "p", "#[]"
RenderPostfixIn == { << >>, << 113, 35 >> }                    \* "", "q#"
RenderSpinnerIn == 0 .. 3

\* one call of _DrawStatusbarComponent with the write lock owned; last.bidx holds the
\* bar width and last.lens the prefix, the postfix and the spinner index
Render(sh, percent, bar_width, prefix, postfix, spinner_idx, move) ==
    /\ Idle
    /\ LET d == DrawStatusbarComponent(sh, percent, bar_width, prefix, postfix, spinner_idx, move)
       IN /\ last' = Call("DrawStatusbarComponent", d.err, NullHandle, NullHandle, sh,
                          bar_width, percent, << prefix, postfix, spinner_idx >>)
          /\ out' = d.out
    /\ UNCHANGED << sinkVars, barVars, wrapped, env, thrVars >>

\* bars of every percentage and width are rendered on a stdout sink
RenderNext ==
    \/ Idle /\ sink_registry = << >> /\ CreateSinkStdout(NullHandle)
    \/ Idle /\ \E sh \in SlotHandles(sink_registry), percent \in RenderPercentIn,
                   bar_width \in RenderWidthIn, prefix \in RenderPrefixIn,
                   postfix \in RenderPostfixIn, spinner_idx \in RenderSpinnerIn :
                  Render(sh, percent, bar_width, prefix, postfix, spinner_idx, 1)
    \/ Return

RenderSpec == Init /\ [][RenderNext]_vars

----------------------------------------------------------------------------
(* The renderer on terminals of every kind *)

WideBar == 80                   \* a bar whose line is longer than DefaultCols

\* stdout and stderr on a terminal or not; TIOCGWINSZ reports 0 columns for a terminal
\* whose size was never set
TerminalEnvSet ==
    EnvSet \cup { [outTty |-> TRUE,  errTty |-> TRUE,  cols |-> 0],
                  [outTty |-> TRUE,  errTty |-> FALSE, cols |-> DefaultCols],
                  [outTty |-> FALSE, errTty |-> FALSE, cols |-> DefaultCols] }

TerminalWidthIn == { 0, 4, WideBar }
TerminalPercentIn == { 0, 50, 100 }

TerminalInit ==
    /\ sink_registry = << >>
    /\ sink_free_handles = << >>
    /\ sink_handle_id_count = 0
    /\ statusbar_registry = << >>
    /\ statusbar_free_handles = << >>
    /\ statusbar_handle_id_count = 0
    /\ wrapped = [sink |-> FALSE, bar |-> FALSE]
    /\ env \in TerminalEnvSet
    /\ last = NoCall
    /\ out = << >>
    /\ thr = [t \in Threads |-> ThreadAt(NullHandle, 0)]
    /\ mutex = NoOwner
    /\ running = 0

\* bars are rendered on sinks of every type
TerminalNext ==
    \/ Idle /\ CreateSinkStdout(NullHandle)
    \/ Idle /\ CreateSinkFile(NullHandle, 0)
    \/ Idle /\ \E os \in OstreamIn : CreateSinkOstream(NullHandle, os)
    \/ Idle /\ \E sh \in SlotHandles(sink_registry), percent \in TerminalPercentIn,
                   bar_width \in TerminalWidthIn, prefix \in RenderPrefixIn,
                   postfix \in RenderPostfixIn :
                  Render(sh, percent, bar_width, prefix, postfix, 0, 1)
    \/ Return

TerminalSpec == TerminalInit /\ [][TerminalNext]_vars

----------------------------------------------------------------------------
(* Threads: Log and the statusbar calls, step by step, on one shared sink *)

\* the handle of the sink every thread uses
ThreadSink == [idx |-> 0, id |-> sink_registry[1].id, valid |-> TRUE]

\* the process has not been ended by undefined behaviour
Alive == \A t \in Threads : thr[t].pc # "crashed"

WriteAndRegistry == { "write", "registry" }

\* variant: a mutex can be locked whoever owns it
LocksAlwaysFree(t, ms) == TRUE

\* std::lock(...) goes through when every mutex it names is free; it blocks, owning
\* none of them, while one is owned
CanLock(t, ms) == \A m \in ms : mutex[m] = 0

Acquire(t, ms) == [m \in Mutexes |-> IF m \in ms THEN t ELSE mutex[m]]

\* variant: an unlock that leaves the mutexes with their owner
KeepLocked(ms) == mutex

\* unique_lock::unlock of locks that are owned
Release(ms) == [m \in Mutexes |-> IF m \in ms THEN 0 ELSE mutex[m]]

\* the statusbar registry as one value
Bars == [reg |-> statusbar_registry, free |-> statusbar_free_handles,
         count |-> statusbar_handle_id_count]

\* one step of thread t: its record, the registry, the mutexes and what it wrote
Step(t, me, b, mtx, o) ==
    /\ thr' = [thr EXCEPT ![t] = me]
    /\ statusbar_registry' = b.reg
    /\ statusbar_free_handles' = b.free
    /\ statusbar_handle_id_count' = b.count
    /\ wrapped' = [wrapped EXCEPT !.bar = @ \/ b.count < statusbar_handle_id_count]
    /\ mutex' = mtx
    /\ out' = o
    /\ running' = t
    /\ UNCHANGED << sinkVars, env, last >>

\* undefined behaviour ends the process
Crashes(t) == Step(t, [thr[t] EXCEPT !.pc = "crashed", !.ret = Crash], Bars, mutex, << >>)

\* the call returns ret to the caller of the library
End(me, ret) ==
    [ThreadAt(me.h, me.calls + 1) EXCEPT !.ret = ret]

\* a LogV call is over: back to its caller, inside the library or outside
AfterLog(me, ret) ==
    IF me.cont = << >> THEN End(me, ret)
    ELSE [me EXCEPT !.pc = Head(me.cont), !.cont = Tail(me.cont)]

\* LogErr / LogWrn called from inside the library; the call goes on at label then
CallLog(me, log_level, sh, then) ==
    [me EXCEPT !.pc = "LogGate", !.level = log_level, !.sh = sh, !.cont = << then >> \o @]

\* another thread owns the registry mutex and its next step appends to
\* _statusbar_registry: a read of the registry without the mutex races with the
\* reallocation of the vector
RacesWithAppend(t) ==
    \E u \in Threads \ {t} :
        /\ mutex["registry"] = u
        /\ statusbar_free_handles = << >>
        /\ IF thr[u].pc = "CreId" THEN IncId(statusbar_handle_id_count) # 0
           ELSE thr[u].pc = "CreRelocked"

\* the threads that hold a reference into _statusbar_registry
\* (sink::SinkHandle& sink_handle of UpdateStatusbar and DestroyStatusbarHandle)
HoldsReference(me) ==
    \/ me.op = "UpdateStatusbar" /\ me.pc # "UpdSink"
    \/ me.op = "DestroyStatusbarHandle" /\ me.pc # "DesCheck"

\* after thread t appended to the vector the references of the others dangle
AfterAppend(t, appended) ==
    [u \in Threads |->
        IF u # t /\ appended /\ HoldsReference(thr[u]) THEN [thr[u] EXCEPT !.dangling = TRUE]
        ELSE thr[u]]

\* sink_handle read through the reference of thread t
SlotSink(t) == statusbar_registry[thr[t].h.idx + 1].sink_handle

\* ---- LogV ----

StartLog(t, log_level) ==
    /\ Alive
    /\ thr[t].pc = "idle"
    /\ thr[t].calls < MaxThreadCalls
    /\ Step(t, [thr[t] EXCEPT !.op = "Log", !.pc = "LogGate", !.level = log_level,
                              !.sh = ThreadSink],
            Bars, mutex, << >>)

\* the threshold and get_mutex_ptr
LogGate(t) ==
    /\ Alive
    /\ thr[t].pc = "LogGate"
    /\ LET me == thr[t]
           err == IsValidSinkHandleVerbose(me.sh)
       IN IF BelowThreshold(me.level)
          THEN Step(t, AfterLog(me, kStatusbarLogSuccess), Bars, mutex, << >>)
          ELSE IF err # kStatusbarLogSuccess
          THEN Step(t, AfterLog(me, err), Bars, mutex, << Ev("warn", Cout, err, << >>) >>)
          ELSE Step(t, [me EXCEPT !.pc = "LogLock"], Bars, mutex, << >>)

\* std::lock(write_lock, registry_lock)
LogLock(t) ==
    /\ Alive
    /\ thr[t].pc = "LogLock"
    /\ CanLock(t, WriteAndRegistry)
    /\ Step(t, [thr[t] EXCEPT !.pc = "LogLine"], Bars, Acquire(t, WriteAndRegistry), << >>)

\* the cursor moves and the line
LogLine(t) ==
    /\ Alive
    /\ thr[t].pc = "LogLine"
    /\ LET me == thr[t]
           pairs == BarPairs(statusbar_registry, 1, 1)
       IN Step(t, [me EXCEPT !.pc = IF Len(pairs) > 0 THEN "LogRedraw" ELSE "LogUnlock",
                             !.k = 1],
               Bars, mutex,
               LogHead(me.level, kFilename, me.sh, OwnMessage, statusbar_registry))

\* one turn of the redraw loop
LogRedrawBar(t) ==
    /\ Alive
    /\ thr[t].pc = "LogRedraw"
    /\ LET me == thr[t]
           pairs == BarPairs(statusbar_registry, 1, 1)
           r == RedrawOne(statusbar_registry, me.sh, pairs[me.k])
       IN IF r.critical
          THEN Step(t, [me EXCEPT !.pc = "LogFailUnlock", !.ret = r.err - 5],
                    [Bars EXCEPT !.reg = r.reg], mutex, r.out)
          ELSE Step(t, [me EXCEPT !.pc = IF me.k < Len(pairs) THEN "LogRedraw" ELSE "LogUnlock",
                                  !.k = me.k + 1],
                    [Bars EXCEPT !.reg = r.reg], mutex, r.out)

\* the critical error: both locks are released before the report
LogFailUnlock(t) ==
    /\ Alive
    /\ thr[t].pc = "LogFailUnlock"
    /\ Step(t, [thr[t] EXCEPT !.pc = "LogFailReport"], Bars, Release(WriteAndRegistry), << >>)

LogFailReport(t) ==
    /\ Alive
    /\ thr[t].pc = "LogFailReport"
    /\ Step(t, AfterLog(thr[t], thr[t].ret), Bars, mutex,
            << Ev("printf", Cout, thr[t].ret + 5, << >>) >>)

LogUnlock(t) ==
    /\ Alive
    /\ thr[t].pc = "LogUnlock"
    /\ Step(t, AfterLog(thr[t], kStatusbarLogSuccess), Bars, Release(WriteAndRegistry), << >>)

\* a library function returns the status it has set after its last log call
Ret(t) ==
    /\ Alive
    /\ thr[t].pc = "Ret"
    /\ Step(t, End(thr[t], thr[t].ret), Bars, mutex, << >>)

\* the outcomes of a step that reads the registry: as written, and the end of the
\* process when the read is undefined behaviour
Outcomes(undefined) == IF undefined THEN { "read", "crash" } ELSE { "read" }

\* ---- UpdateStatusbar ----

StartUpdate(t, idx, percent) ==
    /\ Alive
    /\ thr[t].pc = "idle"
    /\ thr[t].calls < MaxThreadCalls
    /\ Step(t, [thr[t] EXCEPT !.op = "UpdateStatusbar", !.pc = "UpdSink", !.idx = idx,
                              !.pct = percent],
            Bars, mutex, << >>)

\* sink_handle = _statusbar_registry[statusbar_handle.idx].sink_handle and
\* IsValidSinkHandle(sink_handle), before any lock is taken
UpdSink(t) ==
    /\ Alive
    /\ thr[t].pc = "UpdSink"
    /\ LET me == thr[t]
           inside == me.h.idx < Len(statusbar_registry)
       IN \E o \in Outcomes(RacesWithAppend(t) \/ ~inside) :
            IF o = "crash" \/ ~inside THEN Crashes(t)
            ELSE IF IsValidSinkHandle(SlotSink(t)) # kStatusbarLogSuccess
            THEN Step(t, End(me, -1), Bars, mutex, << Ev("cout", Cout, -1, << >>) >>)
            ELSE Step(t, [me EXCEPT !.pc = "UpdMutex"], Bars, mutex, << >>)

\* get_mutex_ptr(sink_handle, ...), through the reference
UpdMutex(t) ==
    /\ Alive
    /\ thr[t].pc = "UpdMutex"
    /\ LET me == thr[t]
       IN \E o \in Outcomes(me.dangling \/ RacesWithAppend(t)) :
            IF o = "crash" THEN Crashes(t)
            ELSE IF IsValidSinkHandleVerbose(SlotSink(t)) # kStatusbarLogSuccess
            THEN Step(t, CallLog([me EXCEPT !.ret = -2], kLogLevelErr, SlotSink(t), "Ret"),
                      Bars, mutex, << >>)
            ELSE Step(t, [me EXCEPT !.pc = "UpdLock"], Bars, mutex, << >>)

UpdLock(t) ==
    /\ Alive
    /\ thr[t].pc = "UpdLock"
    /\ CanLock(t, WriteAndRegistry)
    /\ Step(t, [thr[t] EXCEPT !.pc = "UpdBody"], Bars, Acquire(t, WriteAndRegistry), << >>)

\* with both locks: the checks, which unlock before they report, or the store and the draw
UpdBody(t) ==
    /\ Alive
    /\ thr[t].pc = "UpdBody"
    /\ LET me == thr[t]
           slot == me.h.idx + 1
           statusbar == statusbar_registry[slot]
           sh == SlotSink(t)
           err == IsValidStatusbarHandle(me.h)
           spin1 == statusbar.spin_idxs[me.idx + 1] + 1
           d == DrawStatusbarComponent(sh, me.pct, statusbar.bar_sizes[me.idx + 1],
                                       statusbar.prefixes[me.idx + 1],
                                       statusbar.postfixes[me.idx + 1],
                                       spin1, statusbar.positions[me.idx + 1])
           reg1 == [statusbar_registry EXCEPT ![slot].percentages[me.idx + 1] = me.pct,
                                              ![slot].spin_idxs[me.idx + 1] = d.spin]
           report == d.err # kStatusbarLogSuccess /\ ~statusbar.error_reported
       IN \E o \in Outcomes(me.dangling) :
            IF o = "crash" THEN Crashes(t)
            ELSE IF err # kStatusbarLogSuccess
            THEN Step(t, [me EXCEPT !.pc = "UpdVerbose", !.ret = err - 2],
                      Bars, Release(WriteAndRegistry), << >>)
            ELSE IF PercentOutOfRange(me.pct)
            THEN Step(t, CallLog([me EXCEPT !.ret = -7], kLogLevelErr, sh, "Ret"),
                      Bars, Release(WriteAndRegistry), << >>)
            ELSE IF me.idx >= Len(statusbar.percentages)
            THEN Step(t, CallLog([me EXCEPT !.ret = -8], kLogLevelErr, sh, "Ret"),
                      Bars, Release(WriteAndRegistry), << >>)
            ELSE IF report
            THEN Step(t, [me EXCEPT !.pc = "UpdReport"],
                      [Bars EXCEPT !.reg = [reg1 EXCEPT ![slot].error_reported = TRUE]],
                      mutex, d.out)
            ELSE Step(t, [me EXCEPT !.pc = "UpdUnlock"], [Bars EXCEPT !.reg = reg1],
                      mutex, d.out)

\* _IsValidStatusbarHandleVerbose, after both locks were released: a warning for the
\* check that fails
UpdVerbose(t) ==
    /\ Alive
    /\ thr[t].pc = "UpdVerbose"
    /\ LET me == thr[t]
       IN \E o \in Outcomes(me.dangling \/ RacesWithAppend(t)) :
            IF o = "crash" THEN Crashes(t)
            ELSE IF IsValidStatusbarHandle(me.h) # kStatusbarLogSuccess
            THEN Step(t, CallLog(me, kLogLevelWrn, SlotSink(t), "UpdInvalid"), Bars, mutex, << >>)
            ELSE Step(t, [me EXCEPT !.pc = "UpdInvalid"], Bars, mutex, << >>)

\* LogErr("... Invalid handle."), then return err - 2
UpdInvalid(t) ==
    /\ Alive
    /\ thr[t].pc = "UpdInvalid"
    /\ \E o \in Outcomes(thr[t].dangling \/ RacesWithAppend(t)) :
         IF o = "crash" THEN Crashes(t)
         ELSE Step(t, CallLog(thr[t], kLogLevelErr, SlotSink(t), "Ret"), Bars, mutex, << >>)

\* the draw failed and the statusbar had not reported: unlock both ...
UpdReport(t) ==
    /\ Alive
    /\ thr[t].pc = "UpdReport"
    /\ Step(t, [thr[t] EXCEPT !.pc = "UpdReportLog"], Bars, Release(WriteAndRegistry), << >>)

\* ... and LogErr(..., statusbar.id, idx), read without the registry mutex
UpdReportLog(t) ==
    /\ Alive
    /\ thr[t].pc = "UpdReportLog"
    /\ \E o \in Outcomes(thr[t].dangling \/ RacesWithAppend(t)) :
         IF o = "crash" THEN Crashes(t)
         ELSE Step(t, CallLog(thr[t], kLogLevelErr, SlotSink(t), "UpdSecondUnlock"),
                   Bars, mutex, << >>)

\* write_lock.unlock() of a lock that was unlocked before the report: std::system_error
UpdSecondUnlock(t) ==
    /\ Alive
    /\ thr[t].pc = "UpdSecondUnlock"
    /\ Step(t, [thr[t] EXCEPT !.pc = "thrown", !.ret = Throw], Bars, mutex, << >>)

UpdUnlock(t) ==
    /\ Alive
    /\ thr[t].pc = "UpdUnlock"
    /\ Step(t, End(thr[t], kStatusbarLogSuccess), Bars, Release(WriteAndRegistry), << >>)

\* ---- CreateStatusbarHandle (one bar: the arrays of OneBar) ----

StartCreate(t) ==
    /\ Alive
    /\ thr[t].pc = "idle"
    /\ thr[t].calls < MaxThreadCalls
    /\ Step(t, [thr[t] EXCEPT !.op = "CreateStatusbarHandle", !.pc = "CreCheck",
                              !.sh = ThreadSink],
            Bars, mutex, << >>)

\* the checks before any lock is taken
CreCheck(t) ==
    /\ Alive
    /\ thr[t].pc = "CreCheck"
    /\ LET me == thr[t]
           cleared == [me EXCEPT !.h = [@ EXCEPT !.valid = FALSE, !.id = 0]]
       IN \E o \in Outcomes(RacesWithAppend(t)) :
            IF o = "crash" THEN Crashes(t)
            ELSE IF IsValidSinkHandle(me.sh) # kStatusbarLogSuccess
            THEN Step(t, End(me, -1), Bars, mutex, << Ev("cout", Cout, -1, << >>) >>)
            ELSE IF IsValidStatusbarHandle(me.h) = kStatusbarLogSuccess
            THEN Step(t, CallLog([me EXCEPT !.ret = -2], kLogLevelErr, me.sh, "Ret"),
                      Bars, mutex, << >>)
            ELSE IF StatusbarCapacityReached(statusbar_registry, statusbar_free_handles)
            THEN Step(t, CallLog([cleared EXCEPT !.ret = -4], kLogLevelErr, me.sh, "Ret"),
                      Bars, mutex, << >>)
            ELSE Step(t, [cleared EXCEPT !.pc = "CreLock"], Bars, mutex, << >>)

AllThree == { "write", "registry", "id_count" }

\* std::lock(write_lock, registry_lock, id_count_lock)
CreLock(t) ==
    /\ Alive
    /\ thr[t].pc = "CreLock"
    /\ CanLock(t, AllThree)
    /\ Step(t, [thr[t] EXCEPT !.pc = "CreId"], Bars, Acquire(t, AllThree), << >>)

\* the slot is filled with a statusbar of id id, the handle is set and the bars are drawn
CreStored(t, id) ==
    LET me == thr[t]
        sb == MkStatusbar(me.sh, << 0 >>, OneBar[1],
                          SanitizedBarSizes(OneBar[3], OneBar[2]), SanitizedPrefixes(OneBar[3]),
                          SanitizedPostfixes(OneBar[3], OneBar[4]), << 0 >>, id, FALSE)
        idx == StatusbarSlotFor(statusbar_free_handles, statusbar_registry)
        others == AfterAppend(t, statusbar_free_handles = << >>)
    IN /\ thr' = [others EXCEPT ![t] = [me EXCEPT !.pc = "CreUnlock",
                                                  !.h = [idx |-> idx, id |-> id, valid |-> TRUE]]]
       /\ statusbar_registry' = StoreStatusbar(statusbar_registry, statusbar_free_handles, sb)
       /\ statusbar_free_handles' = PopBack(statusbar_free_handles)
       /\ statusbar_handle_id_count' = id
       /\ out' = DrawAll(me.sh, sb, 1)
       /\ running' = t
       /\ UNCHANGED << sinkVars, env, last, wrapped, mutex >>

\* _statusbar_handle_id_count++; when it became 0 the write and the registry lock are
\* released for a warning, the id-count lock is kept
CreId(t) ==
    /\ Alive
    /\ thr[t].pc = "CreId"
    /\ IF IncId(statusbar_handle_id_count) = 0
       THEN Step(t, CallLog(thr[t], kLogLevelWrn, thr[t].sh, "CreRelock"),
                 [Bars EXCEPT !.count = 0], Release(WriteAndRegistry), << >>)
       ELSE CreStored(t, IncId(statusbar_handle_id_count))

\* std::lock(write_lock, registry_lock) with the id-count lock owned
CreRelock(t) ==
    /\ Alive
    /\ thr[t].pc = "CreRelock"
    /\ CanLock(t, WriteAndRegistry)
    /\ Step(t, [thr[t] EXCEPT !.pc = "CreRelocked"], Bars, Acquire(t, WriteAndRegistry), << >>)

\* the second _statusbar_handle_id_count++ and the rest of the function
CreRelocked(t) ==
    /\ Alive
    /\ thr[t].pc = "CreRelocked"
    /\ CreStored(t, IncId(statusbar_handle_id_count))

\* the three unique_locks go out of scope
CreUnlock(t) ==
    /\ Alive
    /\ thr[t].pc = "CreUnlock"
    /\ Step(t, End(thr[t], kStatusbarLogSuccess), Bars, Release(AllThree), << >>)

\* ---- DestroyStatusbarHandle ----

StartDestroy(t) ==
    /\ Alive
    /\ thr[t].pc = "idle"
    /\ thr[t].calls < MaxThreadCalls
    /\ Step(t, [thr[t] EXCEPT !.op = "DestroyStatusbarHandle", !.pc = "DesCheck"],
            Bars, mutex, << >>)

\* the checks before any lock is taken
DesCheck(t) ==
    /\ Alive
    /\ thr[t].pc = "DesCheck"
    /\ LET me == thr[t]
           err == IsValidStatusbarHandle(me.h)
       IN \E o \in Outcomes(RacesWithAppend(t)) :
            IF o = "crash" THEN Crashes(t)
            ELSE IF err # kStatusbarLogSuccess
            THEN Step(t, End(me, err), Bars, mutex, << Ev("cout", Cout, err, << >>) >>)
            ELSE IF DestroyNeedsSink(SlotSink(t)) # kStatusbarLogSuccess
            THEN Step(t, End(me, -5), Bars, mutex, << Ev("cout", Cout, -5, << >>) >>)
            ELSE Step(t, [me EXCEPT !.pc = "DesLock"], Bars, mutex, << >>)

DesLock(t) ==
    /\ Alive
    /\ thr[t].pc = "DesLock"
    /\ CanLock(t, WriteAndRegistry)
    /\ Step(t, [thr[t] EXCEPT !.pc = "DesBody"], Bars, Acquire(t, WriteAndRegistry), << >>)

\* with both locks: the lines are cleared, the slot is cleared, the handle is
\* invalidated and pushed on the free list
DesBody(t) ==
    /\ Alive
    /\ thr[t].pc = "DesBody"
    /\ LET me == thr[t]
           target == statusbar_registry[me.h.idx + 1]
           cleared == [me.h EXCEPT !.valid = FALSE, !.id = 0]
       IN \E o \in Outcomes(me.dangling) :
            IF o = "crash" THEN Crashes(t)
            ELSE Step(t, [me EXCEPT !.pc = "DesUnlock", !.h = cleared],
                      [Bars EXCEPT !.reg = [statusbar_registry EXCEPT ![me.h.idx + 1] =
                                                ClearedStatusbar(target)],
                                   !.free = Append(statusbar_free_handles, cleared)],
                      mutex, ClearAll(target, 1))

DesUnlock(t) ==
    /\ Alive
    /\ thr[t].pc = "DesUnlock"
    /\ Step(t, End(thr[t], kStatusbarLogSuccess), Bars, Release(WriteAndRegistry), << >>)

\* ---- the threads together ----

\* the steps in which a thread waits for mutexes
LockStep(t) == LogLock(t) \/ UpdLock(t) \/ CreLock(t) \/ CreRelock(t) \/ DesLock(t)

\* the steps a thread takes inside a call without waiting
RunStep(t) ==
    \/ LogGate(t) \/ LogLine(t) \/ LogRedrawBar(t) \/ LogFailUnlock(t) \/ LogFailReport(t)
    \/ LogUnlock(t) \/ Ret(t)
    \/ UpdSink(t) \/ UpdMutex(t) \/ UpdBody(t) \/ UpdVerbose(t) \/ UpdInvalid(t)
    \/ UpdReport(t) \/ UpdReportLog(t) \/ UpdSecondUnlock(t) \/ UpdUnlock(t)
    \/ CreCheck(t) \/ CreId(t) \/ CreRelocked(t) \/ CreUnlock(t)
    \/ DesCheck(t) \/ DesBody(t) \/ DesUnlock(t)

ThreadLevelIn == { kLogLevelInf, kLogLevelDbg }
ThreadPercentIn == { 50, 101 }
ThreadBarIndexIn == { 0, 2 }

\* a thread starts a call
StartStep(t) ==
    \/ \E log_level \in ThreadLevelIn : StartLog(t, log_level)
    \/ \E idx \in ThreadBarIndexIn, percent \in ThreadPercentIn : StartUpdate(t, idx, percent)
    \/ StartCreate(t)
    \/ StartDestroy(t)

\* the program before it starts its threads: one sink (stdout, or std::cerr wrapped),
\* one statusbar with two bars on it, whose id is the first or the last of the counter;
\* the first thread holds its handle, the second a copy of it or a fresh handle
ThreadSinkIn ==
    { MkSink("kSinkStdout", "cout", FALSE, 1, 1), MkSink("kSinkOstreamWrapped", "cerr", FALSE, 2, 1) }

ThreadInit ==
    /\ sink_registry \in { << s >> : s \in ThreadSinkIn }
    /\ sink_free_handles = << >>
    /\ sink_handle_id_count = 1
    /\ statusbar_handle_id_count \in { 1, IdMod - 1 }
    /\ statusbar_registry =
         << MkStatusbar([idx |-> 0, id |-> 1, valid |-> TRUE], << 0, 0 >>, TwoBars[1],
                        SanitizedBarSizes(TwoBars[3], TwoBars[2]), SanitizedPrefixes(TwoBars[3]),
                        SanitizedPostfixes(TwoBars[3], TwoBars[4]), << 0, 0 >>,
                        statusbar_handle_id_count, FALSE) >>
    /\ statusbar_free_handles = << >>
    /\ wrapped = [sink |-> FALSE, bar |-> FALSE]
    /\ env \in EnvSet
    /\ last = NoCall
    /\ out = << >>
    /\ \E h2 \in { NullHandle, [idx |-> 0, id |-> statusbar_handle_id_count, valid |-> TRUE] } :
         thr = [t \in Threads |->
                  ThreadAt(IF t = 1 THEN [idx |-> 0, id |-> statusbar_handle_id_count, valid |-> TRUE]
                           ELSE h2, 0)]
    /\ mutex = NoOwner
    /\ running = 0

ThreadNext ==
    \/ \E t \in Threads : StartStep(t)
    \/ \E t \in Threads : RunStep(t)
    \/ \E t \in Threads : LockStep(t)

ThreadSpec == ThreadInit /\ [][ThreadNext]_vars

\* the scheduler runs every thread that can run, and std::mutex hands a mutex that
\* is released again and again to every thread that waits for it
FairThreadSpec ==
    /\ ThreadSpec
    /\ \A t \in Threads : WF_vars(RunStep(t)) /\ SF_vars(LockStep(t))

----------------------------------------------------------------------------
(* Threads: CreateStatusbarHandle called by every thread, each with a handle of its own *)

\* as ThreadInit, but every thread holds a fresh handle
CreatorsInit ==
    /\ sink_registry \in { << s >> : s \in ThreadSinkIn }
    /\ sink_free_handles = << >>
    /\ sink_handle_id_count = 1
    /\ statusbar_handle_id_count \in { 1, IdMod - 1 }
    /\ statusbar_registry =
         << MkStatusbar([idx |-> 0, id |-> 1, valid |-> TRUE], << 0, 0 >>, TwoBars[1],
                        SanitizedBarSizes(TwoBars[3], TwoBars[2]), SanitizedPrefixes(TwoBars[3]),
                        SanitizedPostfixes(TwoBars[3], TwoBars[4]), << 0, 0 >>,
                        statusbar_handle_id_count, FALSE) >>
    /\ statusbar_free_handles = << >>
    /\ wrapped = [sink |-> FALSE, bar |-> FALSE]
    /\ env \in EnvSet
    /\ last = NoCall
    /\ out = << >>
    /\ thr = [t \in Threads |-> ThreadAt(NullHandle, 0)]
    /\ mutex = NoOwner
    /\ running = 0

\* the steps of CreateStatusbarHandle and of the log calls it makes
CreatorsNext ==
    \/ \E t \in Threads : StartCreate(t)
    \/ \E t \in Threads : CreCheck(t) \/ CreId(t) \/ CreRelocked(t) \/ CreUnlock(t)
    \/ \E t \in Threads : CreLock(t) \/ CreRelock(t) \/ LogLock(t)
    \/ \E t \in Threads :
          \/ LogGate(t) \/ LogLine(t) \/ LogRedrawBar(t) \/ LogFailUnlock(t) \/ LogFailReport(t)
          \/ LogUnlock(t) \/ Ret(t)

CreatorsSpec == CreatorsInit /\ [][CreatorsNext]_vars

----------------------------------------------------------------------------
(* Threads: every thread calls DestroyStatusbarHandle or CreateStatusbarHandle with its
   copy of the handle of the statusbar, and then CreateStatusbarHandle *)

MaxRecycleCalls == 2            \* calls per thread in RecycleSpec

\* as ThreadInit, but every thread holds a copy of the handle of the statusbar
RecycleInit ==
    /\ sink_registry \in { << s >> : s \in ThreadSinkIn }
    /\ sink_free_handles = << >>
    /\ sink_handle_id_count = 1
    /\ statusbar_handle_id_count \in { 1, IdMod - 1 }
    /\ statusbar_registry =
         << MkStatusbar([idx |-> 0, id |-> 1, valid |-> TRUE], << 0, 0 >>, TwoBars[1],
                        SanitizedBarSizes(TwoBars[3], TwoBars[2]), SanitizedPrefixes(TwoBars[3]),
                        SanitizedPostfixes(TwoBars[3], TwoBars[4]), << 0, 0 >>,
                        statusbar_handle_id_count, FALSE) >>
    /\ statusbar_free_handles = << >>
    /\ wrapped = [sink |-> FALSE, bar |-> FALSE]
    /\ env \in EnvSet
    /\ last = NoCall
    /\ out = << >>
    /\ thr = [t \in Threads |->
                ThreadAt([idx |-> 0, id |-> statusbar_handle_id_count, valid |-> TRUE], 0)]
    /\ mutex = NoOwner
    /\ running = 0

\* a thread that is back from its first call calls CreateStatusbarHandle with the handle
\* that call left it
StartCreateAgain(t) ==
    /\ Alive
    /\ thr[t].pc = "idle"
    /\ thr[t].calls >= 1
    /\ thr[t].calls < MaxRecycleCalls
    /\ Step(t, [thr[t] EXCEPT !.op = "CreateStatusbarHandle", !.pc = "CreCheck",
                              !.sh = ThreadSink],
            Bars, mutex, << >>)

\* the steps of DestroyStatusbarHandle, of CreateStatusbarHandle and of their log calls
RecycleNext ==
    \/ \E t \in Threads : StartDestroy(t)
    \/ \E t \in Threads : StartCreate(t)
    \/ \E t \in Threads : StartCreateAgain(t)
    \/ \E t \in Threads : DesCheck(t) \/ DesBody(t) \/ DesUnlock(t)
    \/ \E t \in Threads : CreCheck(t) \/ CreId(t) \/ CreRelocked(t) \/ CreUnlock(t)
    \/ \E t \in Threads : DesLock(t) \/ CreLock(t) \/ CreRelock(t) \/ LogLock(t)
    \/ \E t \in Threads :
          \/ LogGate(t) \/ LogLine(t) \/ LogRedrawBar(t) \/ LogFailUnlock(t) \/ LogFailReport(t)
          \/ LogUnlock(t) \/ Ret(t)

RecycleSpec == RecycleInit /\ [][RecycleNext]_vars

----------------------------------------------------------------------------
(* Threads: SinkWrite and FlushSinkHandle, step by step, on two sinks *)

\* _sink_registry_mutex, and the mutex member of the Sink in slot 0 and in slot 1
SinkMutexes == { "sink_registry", "sink0", "sink1" }

SinkRegistryMutex == { "sink_registry" }

\* lock_guard on _sink_registry_mutex: taken by thread t, and released at the return
LockSinkRegistry(t) == [mutex EXCEPT !["sink_registry"] = t]
UnlockSinkRegistry == [mutex EXCEPT !["sink_registry"] = 0]

\* another thread has a write to the stream of sink idx in progress
StreamBusy(t, idx) ==
    \E u \in Threads \ { t } :
        /\ thr[u].pc = "SwWrite"
        /\ thr[u].sh.idx = idx
        /\ sink_registry[idx + 1].fd < 0

\* SinkWrite(sink_handle, buf, len) with a buffer that is not null
StartSinkWrite(t, sh, len) ==
    /\ Alive
    /\ thr[t].pc = "idle"
    /\ thr[t].calls < MaxSinkThreadCalls
    /\ Step(t, [thr[t] EXCEPT !.op = "SinkWrite", !.pc = "SwLock", !.sh = sh, !.k = len],
            Bars, mutex, << >>)

\* std::lock_guard<std::mutex> lx(_sink_registry_mutex)
SwLock(t) ==
    /\ Alive
    /\ thr[t].pc = "SwLock"
    /\ CanLock(t, SinkRegistryMutex)
    /\ Step(t, [thr[t] EXCEPT !.pc = "SwCheck"], Bars, LockSinkRegistry(t), << >>)

\* the checks before the write: the handle, the length, the stream
SwCheck(t) ==
    /\ Alive
    /\ thr[t].pc = "SwCheck"
    /\ LET me == thr[t]
       IN IF IsValidSinkHandle(me.sh) # kStatusbarLogSuccess
          THEN Step(t, End(me, -2), Bars, UnlockSinkRegistry, << >>)
          ELSE IF me.k = 0
          THEN Step(t, End(me, kStatusbarLogSuccess), Bars, UnlockSinkRegistry, << >>)
          ELSE Step(t, [me EXCEPT !.pc = "SwWrite"], Bars, mutex, << >>)

\* ::write on the descriptor or sputn on the stream buffer, and the return.
\* good: the stream is good() and takes all the bytes
SwWrite(t, good) ==
    /\ Alive
    /\ thr[t].pc = "SwWrite"
    /\ LET me == thr[t]
           sink == sink_registry[me.sh.idx + 1]
           bytes == Rep(me.k, 120)
       IN IF sink.fd < 0 /\ ~good
          THEN Step(t, End(me, -3), Bars, UnlockSinkRegistry, << >>)
          ELSE Step(t, End(me, me.k), Bars, UnlockSinkRegistry,
                    << Ev("write", me.sh.idx, me.k, bytes) >>)

StartFlush(t, sh) ==
    /\ Alive
    /\ thr[t].pc = "idle"
    /\ thr[t].calls < MaxSinkThreadCalls
    /\ Step(t, [thr[t] EXCEPT !.op = "FlushSinkHandle", !.pc = "FlCheck", !.sh = sh],
            Bars, mutex, << >>)

\* IsValidSinkHandleVerbose, with no mutex
FlCheck(t) ==
    /\ Alive
    /\ thr[t].pc = "FlCheck"
    /\ LET me == thr[t]
           err == IsValidSinkHandleVerbose(me.sh)
       IN IF err # kStatusbarLogSuccess
          THEN Step(t, End(me, err), Bars, mutex, << Ev("cout", Cout, err, << >>) >>)
          ELSE Step(t, [me EXCEPT !.pc = "FlFlush"], Bars, mutex, << >>)

\* _FlushSink, with no mutex: a flush of a stream another thread is writing to is a
\* data race
FlFlush(t, good_before, good_after) ==
    /\ Alive
    /\ thr[t].pc = "FlFlush"
    /\ LET me == thr[t]
           sink == sink_registry[me.sh.idx + 1]
           flushed == FlushSink(sink, good_before, good_after)
       IN \E o \in Outcomes(StreamBusy(t, me.sh.idx)) :
            IF o = "crash" THEN Crashes(t)
            ELSE Step(t, End(me, IF flushed # kStatusbarLogSuccess THEN flushed + 5
                                 ELSE kStatusbarLogSuccess),
                      Bars, mutex,
                      IF sink.fd < 0 /\ good_before THEN << Ev("flush", me.sh.idx, 0, << >>) >>
                      ELSE << >>)

\* a file sink and a stdout sink, with the ids the creators gave them
SinkThreadSinkIn ==
    { << MkSink("kSinkFileOwned", "file", TRUE, -1, 1), MkSink("kSinkStdout", "cout", FALSE, 1, 2) >>,
      << MkSink("kSinkFileOwned", "file", TRUE, -1, 1), MkSink("kSinkFileOwned", "file", TRUE, -1, 2) >> }

\* the handles the threads pass: of the first sink, of the second, and a stale one
SinkThreadHandleIn ==
    { [idx |-> 0, id |-> 1, valid |-> TRUE], [idx |-> 1, id |-> 2, valid |-> TRUE],
      [idx |-> 1, id |-> 1, valid |-> TRUE] }

SinkThreadLenIn == { 0, 2 }

SinkThreadInit ==
    /\ sink_registry \in SinkThreadSinkIn
    /\ sink_free_handles = << >>
    /\ sink_handle_id_count = 2
    /\ statusbar_registry = << >>
    /\ statusbar_free_handles = << >>
    /\ statusbar_handle_id_count = 0
    /\ wrapped = [sink |-> FALSE, bar |-> FALSE]
    /\ env \in EnvSet
    /\ last = NoCall
    /\ out = << >>
    /\ thr = [t \in Threads |-> ThreadAt(NullHandle, 0)]
    /\ mutex = [m \in SinkMutexes |-> 0]
    /\ running = 0

SinkThreadNext ==
    \/ \E t \in Threads, sh \in SinkThreadHandleIn, len \in SinkThreadLenIn : StartSinkWrite(t, sh, len)
    \/ \E t \in Threads, sh \in SinkThreadHandleIn : StartFlush(t, sh)
    \/ \E t \in Threads : SwLock(t)
    \/ \E t \in Threads : SwCheck(t)
    \/ \E t \in Threads, good \in BOOLEAN : SwWrite(t, good)
    \/ \E t \in Threads : FlCheck(t)
    \/ \E t \in Threads, good_before, good_after \in BOOLEAN : FlFlush(t, good_before, good_after)

SinkThreadSpec == SinkThreadInit /\ [][SinkThreadNext]_vars

----------------------------------------------------------------------------
(* Properties *)

\* this step is a call of op (its arguments and results are in last')
Called(op) == Idle /\ last'.op = op

\* the statusbar registry with its free list and id counter, and the sink registry likewise
StatusbarState == << statusbar_registry, statusbar_free_handles, statusbar_handle_id_count >>
SinkState == << sink_registry, sink_free_handles, sink_handle_id_count >>

AllEqual(lens) == \A i, j \in 1 .. Len(lens) : lens[i] = lens[j]

\* C1: CreateStatusbarHandle called with a sink handle that validates, a handle that does
\* not validate, four arrays of one length and fewer than kMaxStatusbarHandles live
\* statusbars returns success and a handle that validates; a successful
\* DestroyStatusbarHandle leaves the handle with valid = false; DestroyStatusbarHandle on
\* such a handle returns -1 and changes neither the registries nor the handle.
C1_CreateDestroyRoundTrip ==
    [][ /\ ( /\ Called("CreateStatusbarHandle")
             /\ IsValidSinkHandle(last'.sh) = kStatusbarLogSuccess
             /\ IsValidStatusbarHandle(last'.hin) # kStatusbarLogSuccess
             /\ AllEqual(last'.lens)
             /\ Len(statusbar_registry) - Len(statusbar_free_handles) < kMaxStatusbarHandles )
           => ( /\ last'.ret = kStatusbarLogSuccess
                /\ IsValidStatusbarHandleIn(statusbar_registry', last'.hout) = kStatusbarLogSuccess )
        /\ ( Called("DestroyStatusbarHandle") /\ last'.ret = kStatusbarLogSuccess )
           => ~last'.hout.valid
        /\ ( Called("DestroyStatusbarHandle") /\ ~last'.hin.valid )
           => ( /\ last'.ret = -1
                /\ last'.hout = last'.hin
                /\ UNCHANGED << StatusbarState, SinkState >> )
      ]_vars

\* a second destroy: the handle passed is the one the last destroy left behind
C1_SecondDestroySeen ==
    /\ last.op = "DestroyStatusbarHandle"
    /\ last.ret = -1
    /\ statusbar_free_handles # << >>
    /\ last.hin = statusbar_free_handles[Len(statusbar_free_handles)]
    /\ \E i \in 1 .. Len(statusbar_registry) : statusbar_registry[i].id # 0

SinkCreators == { "CreateSinkStdout", "CreateSinkFile", "CreateSinkOstream" }

\* the codes with which validation rejects a handle
Rejections == { -1, -2, -3, -4 }

\* C2: with fewer than kMaxSinkHandles live sinks, a sink creator given a handle that does
\* not validate returns success (CreateSinkFile: when the file opens) and a handle for
\* which IsValidSinkHandle succeeds, its idx being the slot the new sink was stored in;
\* after a successful DestroySinkHandle, IsValidSinkHandle on the handle and a second
\* DestroySinkHandle return -1.
C2_SinkCreateDestroyRoundTrip ==
    [][ /\ ( /\ last'.op \in SinkCreators
             /\ Idle
             /\ IsValidSinkHandle(last'.hin) \in Rejections
             /\ Len(sink_registry) - Len(sink_free_handles) < kMaxSinkHandles )
           => ( /\ last'.ret = kStatusbarLogSuccess
                   \/ (last'.op = "CreateSinkFile" /\ last'.ret \in {-3, -4})
                /\ last'.ret = kStatusbarLogSuccess
                   => ( /\ IsValidSinkHandleIn(sink_registry', last'.hout) = kStatusbarLogSuccess
                        /\ last'.hout.idx = SinkSlotFor(sink_free_handles, sink_registry) ) )
        /\ ( Called("DestroySinkHandle") /\ last'.ret = kStatusbarLogSuccess )
           => IsValidSinkHandleIn(sink_registry', last'.hout) = -1
        /\ ( Called("DestroySinkHandle") /\ ~last'.hin.valid )
           => last'.ret = -1
      ]_vars

\* the status codes a statusbar call returns when it refuses
Refusals == -8 .. -1

Back(q) == q[Len(q)]

\* reg2 differs from reg1 at most in error_reported flags that went from false to true
SameButLatch(reg1, reg2) ==
    /\ Len(reg1) = Len(reg2)
    /\ \A i \in 1 .. Len(reg1) :
          /\ [reg1[i] EXCEPT !.error_reported = TRUE] = [reg2[i] EXCEPT !.error_reported = TRUE]
          /\ reg1[i].error_reported => reg2[i].error_reported

\* a handle flagged valid that points into the registry, carries an id the counter has
\* issued and does not validate: what a copy of a destroyed handle is
Stale(h) ==
    /\ h.valid
    /\ h.idx < Len(statusbar_registry)
    /\ h.id # 0
    /\ wrapped.bar \/ h.id <= statusbar_handle_id_count
    /\ IsValidStatusbarHandle(h) # kStatusbarLogSuccess

\* the part of C3 about slot reuse, which the claim itself limits to runs without wraparound
C3_Reuse ==
    /\ ( Called("DestroyStatusbarHandle") /\ last'.ret = kStatusbarLogSuccess )
       => ( /\ Back(statusbar_free_handles').idx = last'.hin.idx
            /\ ~wrapped.bar => last'.hin.id <= statusbar_handle_id_count )
    /\ ( Called("CreateStatusbarHandle") /\ last'.ret = kStatusbarLogSuccess )
       => ( /\ statusbar_free_handles # << >>
               => last'.hout.idx = Back(statusbar_free_handles).idx
            /\ ~wrapped'.bar => last'.hout.id > statusbar_handle_id_count )

\* C3 as stated: after Destroy(H) the next create reuses H's slot with a strictly greater
\* id (absent wraparound); H and its copies are rejected by Destroy and Update in every
\* later state, and a call with one changes nothing of the statusbar registry.
C3_StaleAlwaysRejected ==
    [][ /\ C3_Reuse
        /\ \A h \in BarHandleDom :
              Stale(h) => IsValidStatusbarHandleIn(statusbar_registry', h) # kStatusbarLogSuccess
        /\ ( last'.op \in { "DestroyStatusbarHandle", "UpdateStatusbar" } /\ Idle /\ Stale(last'.hin) )
           => ( /\ last'.ret \in Refusals
                /\ UNCHANGED StatusbarState )
      ]_vars

\* C3 with its limits: stale handles stay rejected until the id counter wraps, and a
\* refused call with one changes nothing of the registry but, through the redraw of its
\* error log, error_reported flags.
C3_StaleRejectedUntilWrap ==
    [][ /\ C3_Reuse
        /\ ~wrapped'.bar
           => \A h \in BarHandleDom :
                 Stale(h) => IsValidStatusbarHandleIn(statusbar_registry', h) # kStatusbarLogSuccess
        /\ ( last'.op \in { "DestroyStatusbarHandle", "UpdateStatusbar" } /\ Idle /\ Stale(last'.hin) )
           => ( /\ last'.ret \in Refusals
                /\ SameButLatch(statusbar_registry, statusbar_registry')
                /\ UNCHANGED << statusbar_free_handles, statusbar_handle_id_count >> )
      ]_vars

\* an update with a stale handle was refused while a newer statusbar occupies the slot
C3_StaleUpdateOnReusedSlot ==
    /\ last.op = "UpdateStatusbar"
    /\ last.ret = -5
    /\ last.hin.id # 0
    /\ statusbar_registry[last.hin.idx + 1].id > last.hin.id

LiveStatusbars == Len(statusbar_registry) - Len(statusbar_free_handles)

\* a create whose sink handle validates and whose statusbar handle does not
CreateAttempt ==
    /\ Called("CreateStatusbarHandle")
    /\ IsValidSinkHandle(last'.sh) = kStatusbarLogSuccess
    /\ IsValidStatusbarHandle(last'.hin) # kStatusbarLogSuccess

\* the statusbar registry is as before but for error_reported flags the error log set
OnlyLatchesSet ==
    /\ SameButLatch(statusbar_registry, statusbar_registry')
    /\ UNCHANGED << statusbar_free_handles, statusbar_handle_id_count >>

\* the free list holds exactly the destroyed slots, so length - free-list length counts
\* the live ones
FreeListCountsDestroyed ==
    Cardinality({ i \in 1 .. Len(statusbar_registry) : statusbar_registry[i].id # 0 }) = LiveStatusbars

BarCount(h) == Len(statusbar_registry[h.idx + 1].percentages)

\* an update with a handle that validates
UpdateOfValid ==
    /\ Called("UpdateStatusbar")
    /\ IsValidStatusbarHandle(last'.hin) = kStatusbarLogSuccess

\* C5: UpdateStatusbar on a valid handle fails with the percentage code for percent < 0
\* or > 100, with the index code for bar_index >= bar count, and succeeds for every
\* percent in [0,100], 0 and 100 included, when the index is in range.
C5_UpdateInputDomain ==
    [][ UpdateOfValid
        => ( /\ PercentOutOfRange(last'.pct) => last'.ret = -7
             /\ ( ~PercentOutOfRange(last'.pct) /\ last'.bidx >= BarCount(last'.hin) )
                => last'.ret = -8
             /\ ( ~PercentOutOfRange(last'.pct) /\ last'.bidx < BarCount(last'.hin) )
                => last'.ret = kStatusbarLogSuccess )
      ]_vars

BarDrawn(o) == \E k \in 1 .. Len(o) : o[k].k = "bar"

\* C6 as stated: an UpdateStatusbar that returns a non-success status leaves the
\* statusbar registry, free list and id counter unchanged and redraws no bar.
C6_FailedUpdateChangesNothing ==
    [][ ( Called("UpdateStatusbar") /\ last'.ret \in Refusals )
        => ( /\ UNCHANGED StatusbarState
             /\ ~BarDrawn(out') )
      ]_vars

\* C6 with its limits: a refused update changes no percentage, spinner index, layout,
\* id, free list or id counter; its error log redraws the bars as they are stored and
\* can set error_reported flags; without an error log (status -1) nothing is drawn.
C6_FailedUpdate ==
    [][ ( Called("UpdateStatusbar") /\ last'.ret \in Refusals )
        => ( /\ OnlyLatchesSet
             /\ UNCHANGED SinkState
             /\ last'.hout = last'.hin
             /\ last'.ret = -1 => ( UNCHANGED StatusbarState /\ ~BarDrawn(out') ) )
      ]_vars

\* an update refused for its bar index, after which the error log redrew the bars
C6_RefusedUpdateLogged ==
    /\ last.op = "UpdateStatusbar"
    /\ last.ret = -8
    /\ BarDrawn(out)
    /\ \E i \in 1 .. Len(statusbar_registry) : statusbar_registry[i].percentages = << 100 >>

\* C7 as stated: a create whose four arrays are not of one length fails with the
\* size-mismatch code whichever array differs, leaves the handle invalid and the
\* registry, free list and id counter unchanged.
C7_SizeMismatchChangesNothing ==
    [][ ( CreateAttempt /\ ~AllEqual(last'.lens) )
        => ( /\ last'.ret = -3
             /\ ~last'.hout.valid
             /\ UNCHANGED StatusbarState )
      ]_vars

\* C7 with its limit: the redraw of the error log can set error_reported flags.
C7_SizeMismatch ==
    [][ ( CreateAttempt /\ ~AllEqual(last'.lens) )
        => ( /\ last'.ret = -3
             /\ ~last'.hout.valid
             /\ OnlyLatchesSet )
      ]_vars

\* a create refused because only the postfix array is longer, with a statusbar live
C7_PostfixesLonger ==
    /\ last.op = "CreateStatusbarHandle"
    /\ last.ret = -3
    /\ last.lens = << 1, 1, 1, 2 >>
    /\ LiveStatusbars > 0

\* C8 as stated: a create with a statusbar handle that validates fails with the
\* already-bound code, leaves the registry unchanged and the handle as it was; a sink
\* creator with a sink handle that validates fails likewise with -1.
C8_BoundHandleChangesNothing ==
    [][ /\ ( Called("CreateStatusbarHandle") /\ IsValidStatusbarHandle(last'.hin) = kStatusbarLogSuccess )
           => ( /\ last'.ret = -2
                /\ last'.hout = last'.hin
                /\ UNCHANGED StatusbarState )
        /\ ( Idle /\ last'.op \in SinkCreators /\ IsValidSinkHandle(last'.hin) = kStatusbarLogSuccess )
           => ( /\ last'.ret = -1
                /\ last'.hout = last'.hin
                /\ UNCHANGED SinkState )
      ]_vars

\* C8 with its limits: the sink handle has to validate for the statusbar handle to be
\* looked at, and the redraw of the error log can set error_reported flags.
C8_BoundHandle ==
    [][ /\ ( Called("CreateStatusbarHandle") /\ IsValidStatusbarHandle(last'.hin) = kStatusbarLogSuccess )
           => ( /\ IsValidSinkHandle(last'.sh) = kStatusbarLogSuccess => last'.ret = -2
                /\ last'.ret \in { -1, -2 }
                /\ last'.hout = last'.hin
                /\ IsValidStatusbarHandleIn(statusbar_registry', last'.hout) = kStatusbarLogSuccess
                /\ OnlyLatchesSet
                /\ UNCHANGED SinkState )
        /\ ( Idle /\ last'.op \in SinkCreators /\ IsValidSinkHandle(last'.hin) = kStatusbarLogSuccess )
           => ( /\ last'.ret = -1
                /\ last'.hout = last'.hin
                /\ IsValidSinkHandleIn(sink_registry', last'.hout) = kStatusbarLogSuccess
                /\ UNCHANGED << SinkState, StatusbarState >> )
      ]_vars

\* a create refused for a bound statusbar handle, which still validates
C8_BoundHandleRefused ==
    /\ last.op = "CreateStatusbarHandle"
    /\ last.ret = -2
    /\ IsValidStatusbarHandle(last.hout) = kStatusbarLogSuccess

\* the first check that fails, in the order valid flag, index, id match, id 0
FirstFailing(h, len, slot_id) ==
    IF ~h.valid THEN -1
    ELSE IF h.idx >= len THEN -2
    ELSE IF h.id # slot_id THEN -3
    ELSE IF h.id = 0 THEN -4
    ELSE kStatusbarLogSuccess

SlotId(reg, h) == IF h.idx < Len(reg) THEN reg[h.idx + 1].id ELSE 0

\* C9: validation of statusbar and of sink handles returns -1 for a false valid flag,
\* else -2 for an index outside the registry, else -3 for an id that differs from the
\* slot's, else -4 for id 0, and success exactly when none applies;
\* DestroyStatusbarHandle returns that code for a handle that does not validate.
C9_ValidationOrder ==
    [][ /\ \A h \in BarHandleDom :
              IsValidStatusbarHandle(h)
                 = FirstFailing(h, Len(statusbar_registry), SlotId(statusbar_registry, h))
        /\ \A h \in SinkHandleDom :
              IsValidSinkHandle(h) = FirstFailing(h, Len(sink_registry), SlotId(sink_registry, h))
        /\ ( Called("DestroyStatusbarHandle") /\ IsValidStatusbarHandle(last'.hin) # kStatusbarLogSuccess )
           => last'.ret = IsValidStatusbarHandle(last'.hin)
      ]_vars

\* C10: every handle a successful create issues, for sinks (CreateSinkStdout,
\* CreateSinkFile, CreateSinkOstream) and for statusbars, has an id other than 0, also
\* when the id counter overflows.
C10_IssuedIdNonZero ==
    [][ ( /\ Idle
          /\ last'.op \in SinkCreators \cup { "CreateStatusbarHandle" }
          /\ last'.ret = kStatusbarLogSuccess )
        => last'.hout.id # 0
      ]_vars

\* the status of the draw an update with a valid handle and valid inputs makes
UpdateDrawErr ==
    LET sb == statusbar_registry[last'.hin.idx + 1]
        i == last'.bidx + 1
    IN DrawStatusbarComponent(sb.sink_handle, last'.pct, sb.bar_sizes[i], sb.prefixes[i],
                              sb.postfixes[i], sb.spin_idxs[i] + 1, sb.positions[i]).err

\* an update with a valid handle and valid inputs whose bar has to be truncated
UpdateTruncating ==
    /\ UpdateOfValid
    /\ IsValidSinkHandle(statusbar_registry[last'.hin.idx + 1].sink_handle) = kStatusbarLogSuccess
    /\ ~PercentOutOfRange(last'.pct)
    /\ last'.bidx < BarCount(last'.hin)
    /\ UpdateDrawErr \in { -3, -4, -5 }

\* the lines the log facade wrote to a sink during a call
LogLines(o) == { k \in 1 .. Len(o) : o[k].k = "log" }

\* C13: an update whose bar has to be truncated returns success; the first one of a
\* statusbar sets error_reported and logs the truncation once, every later one logs
\* nothing and returns success as well.
C13_TruncationReportedOnce ==
    [][ UpdateTruncating
        => ( /\ last'.ret = kStatusbarLogSuccess
             /\ statusbar_registry'[last'.hin.idx + 1].error_reported
             /\ Cardinality(LogLines(out'))
                  = IF statusbar_registry[last'.hin.idx + 1].error_reported THEN 0 ELSE 1 )
      ]_vars

\* a log call at a level that passes the threshold, on a sink handle that validates
LogPassing ==
    /\ Called("Log")
    /\ last'.pct <= kLogLevel
    /\ IsValidSinkHandle(last'.sh) = kStatusbarLogSuccess

\* the bars, as << slot, bar >>, of the live statusbars bound to sink handle sh
BarsBoundTo(sh) ==
    LET pairs == BarPairs(statusbar_registry, 1, 1)
        Bound(p) == statusbar_registry[p[1]].sink_handle = sh
    IN SelectSeq(pairs, Bound)

\* the largest position among those bars, 0 without any
MoveBoundTo(sh) ==
    LET pairs == BarsBoundTo(sh)
        rows == { statusbar_registry[pairs[k][1]].positions[pairs[k][2]] : k \in 1 .. Len(pairs) }
    IN IF rows = {} THEN 0 ELSE CHOOSE m \in rows : \A r \in rows : r <= m

\* where the log line is in the output of a call
LogLineAt(o) == CHOOSE k \in LogLines(o) : TRUE

IsUp(e) == e.k = "up"
IsDown(e) == e.k = "down"
IsBar(e) == e.k = "bar"

\* C14: a log call on sink S moves the cursor up by the largest position among the
\* bars of the live statusbars bound to S (not at all without any) before it writes
\* the line, and down by as much right after it; bars bound to another sink do not count.
C14_MoveOverBoundBars ==
    [][ LogPassing
        => LET k == LogLineAt(out')
               move == MoveBoundTo(last'.sh)
               before == SelectSeq(SubSeq(out', 1, k - 1), IsUp)
           IN /\ Cardinality(LogLines(out')) = 1
              /\ before = IF move > 0 THEN << Ev("up", Cout, move, << >>) >> ELSE << >>
              /\ IF move > 0
                 THEN k < Len(out') /\ out'[k + 1] = Ev("down", Cout, move, << >>)
                 ELSE k < Len(out') => ~IsDown(out'[k + 1])
      ]_vars

\* the line a redraw of bar p of the registry writes to sink handle sh
RedrawnBar(sh, p) ==
    LET sb == statusbar_registry[p[1]]
        j == p[2]
    IN SelectSeq(DrawStatusbarComponent(sh, sb.percentages[j], sb.bar_sizes[j], sb.prefixes[j],
                                        sb.postfixes[j], sb.spin_idxs[j], sb.positions[j]).out,
                 IsBar)[1]

\* C15: a log call on sink S that returns success redraws, after the line, the bars of
\* the live statusbars bound to S, each once and at its stored percentage, and writes
\* no bar of a statusbar bound to another sink.
C15_RedrawsBoundBars ==
    [][ ( LogPassing /\ last'.ret = kStatusbarLogSuccess )
        => LET k == LogLineAt(out')
               pairs == BarsBoundTo(last'.sh)
           IN /\ SelectSeq(SubSeq(out', 1, k), IsBar) = << >>
              /\ SelectSeq(out', IsBar) = [n \in 1 .. Len(pairs) |-> RedrawnBar(last'.sh, pairs[n])]
      ]_vars

\* C19: a log call at a level below the threshold returns success and does nothing:
\* it writes nothing, changes no state and does not look at the sink handle.
C19_BelowThresholdNoOp ==
    [][ ( Called("Log") /\ last'.pct > kLogLevel )
        => ( /\ last'.ret = kStatusbarLogSuccess
             /\ out' = << >>
             /\ UNCHANGED << StatusbarState, SinkState, wrapped, env >> )
      ]_vars

\* a debug log through a handle that does not validate, with a statusbar live
C19_GatedLogOnInvalidSink ==
    /\ last.op = "Log"
    /\ last.pct = kLogLevelDbg
    /\ IsValidSinkHandle(last.sh) # kStatusbarLogSuccess
    /\ LiveStatusbars > 0

MessageLevels == { kLogLevelErr, kLogLevelWrn, kLogLevelInf, kLogLevelDbg }

\* ERROR, WARNING, INFO, DEBUG
PrefixOf(log_level) ==
    CASE log_level = kLogLevelErr -> << 69, 82, 82, 79, 82 >>
      [] log_level = kLogLevelWrn -> << 87, 65, 82, 78, 73, 78, 71 >>
      [] log_level = kLogLevelInf -> << 73, 78, 70, 79 >>
      [] log_level = kLogLevelDbg -> << 68, 69, 66, 85, 71 >>

\* PREFIX, " [", tag, "]: ", message, "\n"
WireFormat(log_level, tag, message) ==
    PrefixOf(log_level) \o << 32, 91 >> \o tag \o << 93, 58, 32 >> \o message \o << 10 >>

\* a log call that writes its line to the sink once, as WireFormat of tag and message,
\* and nothing else when no statusbar was ever created
WritesLine(tag, message) ==
    LET k == LogLineAt(out')
    IN /\ Cardinality(LogLines(out')) = 1
       /\ out'[k] = Ev("log", last'.sh.idx, last'.pct, WireFormat(last'.pct, tag, message))
       /\ statusbar_registry = << >> => out' = << out'[k] >>

\* C20 as stated: a log call at a level that passes the threshold writes to the sink one
\* line PREFIX [tag]: message with the sanitised filename and message of the caller, and
\* nothing else when no statusbar was ever created.
C20_LogLineSanitized ==
    [][ ( LogPassing /\ last'.pct \in MessageLevels )
        => WritesLine(SanitizeStringWithNewline(last'.lens[1]),
                      SanitizeStringWithNewline(last'.lens[2]))
      ]_vars

\* C20 with the length caps: the tag is the sanitised filename, cut to
\* kMaxFilenameLength - 3 bytes and "..." when longer than kMaxFilenameLength; the message
\* is the first kMaxLogLength bytes of the formatted text, sanitised.
C20_LogLine ==
    [][ ( LogPassing /\ last'.pct \in MessageLevels )
        => LET clean == SanitizeStringWithNewline(last'.lens[1])
               tag == IF Len(clean) > kMaxFilenameLength
                      THEN SubSeq(clean, 1, kMaxFilenameLength - 3) \o << 46, 46, 46 >>
                      ELSE clean
               body == IF Len(last'.lens[2]) > kMaxLogLength
                       THEN SubSeq(last'.lens[2], 1, kMaxLogLength)
                       ELSE last'.lens[2]
           IN WritesLine(tag, SanitizeStringWithNewline(body))
      ]_vars

\* a log line whose filename was cut, written while no statusbar was ever created
C20_LongFilenameLogged ==
    /\ last.op = "Log"
    /\ last.ret = kStatusbarLogSuccess
    /\ last.pct = kLogLevelWrn
    /\ Len(SanitizeStringWithNewline(last.lens[1])) > kMaxFilenameLength
    /\ statusbar_registry = << >>
    /\ Len(out) = 1

RenderedLine(o) == SelectSeq(o, IsBar)[1].txt

\* the w cells between '[' and ']' of a line that starts with a prefix of n bytes
Interior(line, n, w) == SubSeq(line, n + 2, n + w + 1)

\* a full line: prefix, '[', an interior of w cells of which the first
\* floor(percent * w / 100) are '#', then one spinner glyph if a cell is left, then
\* blanks, and ']'
WellFormedBar(line, percent, w, prefix) ==
    LET n == Len(prefix)
        fill == (percent * w) \div 100
        cells == Interior(line, n, w)
    IN /\ Len(line) >= n + w + 2
       /\ SubSeq(line, 1, n) = prefix
       /\ line[n + 1] = 91
       /\ line[n + w + 2] = 93
       /\ Cardinality({ k \in 1 .. w : cells[k] = 35 }) = fill
       /\ \A k \in 1 .. fill : cells[k] = 35
       /\ Cardinality({ k \in 1 .. w : cells[k] \in { 124, 47, 45, 92 } })
            = IF fill < w THEN 1 ELSE 0
       /\ fill < w => cells[fill + 1] \in { 124, 47, 45, 92 }
       /\ \A k \in fill + 2 .. w : cells[k] = 32

\* a render of a bar with a percentage in 0..100
Rendered == Called("DrawStatusbarComponent") /\ last'.pct \in 0 .. 100

\* floor(percent * w / 100) does not decrease with percent; width 10 gives 0, 2, 5, 7, 10
FillMonotone ==
    /\ \A w \in RenderWidthIn : \A p, q \in RenderPercentIn : p <= q => Fill(p, w) <= Fill(q, w)
    /\ << Fill(0, 10), Fill(25, 10), Fill(50, 10), Fill(75, 10), Fill(100, 10) >> = << 0, 2, 5, 7, 10 >>

DestroyedSlot(i) ==
    /\ i < Len(statusbar_registry)
    /\ \/ statusbar_registry[i + 1].id = 0
       \/ i = 0 /\ statusbar_registry[1].id >= 2

\* an update through a handle as a successful destroy left it: valid flag off, id 0,
\* the index of the slot it was destroyed in
UpdateOfDestroyed ==
    /\ Called("UpdateStatusbar")
    /\ ~last'.hin.valid
    /\ last'.hin.id = 0
    /\ DestroyedSlot(last'.hin.idx)

\* C18 as stated: after a successful destroy an update through the handle returns a
\* non-success status for every bar index and percentage, redraws nothing and changes
\* no registry state, whether or not the slot was reused.
C18_DestroyedUpdateChangesNothing ==
    [][ UpdateOfDestroyed
        => ( /\ last'.ret \in Refusals
             /\ ~BarDrawn(out')
             /\ UNCHANGED StatusbarState )
      ]_vars

\* C18 with its limits: the update returns -1 while the slot is not reused (the slot's
\* sink handle is checked first and was cleared), writing only to std::cout; once the
\* slot is reused it returns -3 and logs a warning and an error, whose redraw writes the
\* bars as stored and can set error_reported flags; nothing else changes.
C18_DestroyedUpdate ==
    [][ UpdateOfDestroyed
        => LET sb == statusbar_registry[last'.hin.idx + 1]
           IN /\ last'.ret = IF IsValidSinkHandle(sb.sink_handle) = kStatusbarLogSuccess
                             THEN -3 ELSE -1
              /\ sb.id = 0 => last'.ret = -1
              /\ last'.ret = -1 => ( UNCHANGED StatusbarState /\ ~BarDrawn(out') )
              /\ last'.hout = last'.hin
              /\ OnlyLatchesSet
              /\ UNCHANGED SinkState
      ]_vars

\* an update through a destroyed handle whose slot, the only one, holds a later statusbar
C18_UpdateAfterReuse ==
    /\ last.op = "UpdateStatusbar"
    /\ last.ret = -3
    /\ last.hin = [idx |-> 0, id |-> 0, valid |-> FALSE]
    /\ Len(statusbar_registry) = 1
    /\ statusbar_registry[1].id >= 2
    /\ BarDrawn(out)

\* the steps in which a thread waits, and the mutexes it waits for
LockPcs == { "LogLock", "UpdLock", "CreLock", "CreRelock", "DesLock" }
Wants(t) == IF thr[t].pc = "CreLock" THEN AllThree ELSE WriteAndRegistry
Blocked(t) == thr[t].pc \in LockPcs /\ ~CanLock(t, Wants(t))

InCall(t) == thr[t].pc # "idle"

\* some thread waits for a mutex and every thread that is in a call waits for one
Deadlocked ==
    /\ Alive
    /\ \E t \in Threads : Blocked(t)
    /\ \A t \in Threads : Blocked(t) \/ thr[t].pc \in { "idle", "thrown" }

\* no thread waits for a mutex whose owner waits too
NoLockDeadlock == ~Deadlocked

\* C11: with threads calling Log, UpdateStatusbar, CreateStatusbarHandle and
\* DestroyStatusbarHandle on one sink no deadlock is reachable, and under fair
\* scheduling every call eventually returns.
C11_NoDeadlockEveryCallReturns ==
    /\ []NoLockDeadlock
    /\ \A t \in Threads : InCall(t) ~> ~InCall(t)

\* what a write section writes: the log line, a bar, the cursor moves and line clears
SectionWrite(e) == e.k \in { "log", "bar", "up", "down", "clear" } \/ (e.k = "printf" /\ e.n = 0)
Wrote(o) == \E i \in 1 .. Len(o) : SectionWrite(o[i])

\* C12: the writes of a Log call (cursor move, line, cursor move, redraw) and of a bar
\* redraw are all made by the thread that owns the sink's write mutex, before and after
\* the write, and while a Log call is between its line and the last bar of its redraw
\* no other thread writes such output; what is written without the mutex is a
\* diagnostic on std::cout, or LogV's report of a critical error on a sink other
\* than stdout.
C12_WritesUnderWriteLock ==
    [][ /\ Wrote(out')
           => /\ mutex["write"] = running'
              /\ mutex'["write"] = running'
              /\ \A t \in Threads \ { running' } : thr[t].pc # "LogRedraw"
        /\ \A i \in 1 .. Len(out') :
              ~SectionWrite(out'[i])
              => \/ out'[i].k \in { "cout", "warn" }
                 \/ out'[i].k = "printf" /\ sink_registry[1].outp # "cout"
      ]_vars

\* a Log call has written the first bar of its redraw and has another to write while
\* the other thread waits for the mutexes
C12_RedrawWhileOtherWaits ==
    \E t \in Threads, u \in Threads :
        /\ t # u
        /\ running = t
        /\ thr[t].op = "Log"
        /\ thr[t].pc = "LogRedraw"
        /\ thr[t].k = 2
        /\ Wrote(out)
        /\ Blocked(u)

\* C24: a CreateSinkFile that cannot open its path returns -3 or -4, leaves the caller's
\* handle invalid, and leaves the slot table, the free list and the id counter of the
\* sink registry as they were before the call.
C24_FailedOpenChangesNothing ==
    [][ ( Called("CreateSinkFile") /\ last'.ret \in {-3, -4} )
        => ( /\ ~last'.hout.valid
             /\ UNCHANGED SinkState )
      ]_vars

\* C25: a DestroySinkHandle whose close of the owned file fails returns an error (-6) and
\* does not mutate the registry in part: the slot still holds a sink object, the free list
\* is unchanged, and validating any handle with that index afterwards is defined.
C25_FailedCloseKeepsSlot ==
    [][ ( Called("DestroySinkHandle") /\ last'.ret = -6 )
        => ( /\ sink_registry'[last'.hin.idx + 1].ptr
             /\ sink_free_handles' = sink_free_handles
             /\ \A h \in SinkHandleDom :
                   h.idx = last'.hin.idx => IsValidSinkHandleIn(sink_registry', h) # Crash )
      ]_vars

\* C22: FlushSinkHandle never returns a positive value: it returns the validation code
\* (-1 .. -5) for a handle that does not validate, 0 for a sink with a descriptor without
\* touching the stream, -6 when the stream is not good before the flush, -7 when it is
\* not good after it, and 0 otherwise.
C22_FlushStatus ==
    [][ Called("FlushSinkHandle")
        => LET valid == IsValidSinkHandle(last'.hin)
               sink == sink_registry[last'.hin.idx + 1]
               good_before == last'.bidx = 1
               good_after == last'.pct = 1
           IN /\ last'.ret <= 0
              /\ valid \in Rejections => last'.ret = valid
              /\ valid = kStatusbarLogSuccess
                 => /\ sink.fd >= 0 => ( last'.ret = 0 /\ out' = << >> )
                    /\ ( sink.fd < 0 /\ ~good_before ) => last'.ret = -6
                    /\ ( sink.fd < 0 /\ good_before /\ ~good_after ) => last'.ret = -7
                    /\ ( sink.fd < 0 /\ good_before /\ good_after ) => last'.ret = 0
      ]_vars

\* C23: sink MoveCursorUp(h, n) on a handle that validates: n = 0 returns success and
\* writes nothing; on a sink with a descriptor whose write succeeds, n > 0 writes the
\* cursor-up escape for n rows and n < 0 writes exactly -n newline bytes; on a file-owned
\* sink without descriptor whose stream is good, n < 0 appends exactly -n newlines to the
\* file, once, and returns success.
C23_SinkMoveCursorUp ==
    [][ ( Called("MoveCursorUp") /\ IsValidSinkHandle(last'.hin) = kStatusbarLogSuccess )
        => LET sink == sink_registry[last'.hin.idx + 1]
               n == last'.pct
               io == last'.bidx
               written(bytes) == << Ev("write", last'.hin.idx, Len(bytes), bytes) >>
           IN /\ n = 0 => ( last'.ret = kStatusbarLogSuccess /\ out' = << >> )
              /\ ( sink.fd >= 0 /\ io # -7 /\ n > 0 )
                 => ( /\ last'.ret = kStatusbarLogSuccess
                      /\ out' = written(<< 27, 91 >> \o Digits(n) \o << 65 >>) )
              /\ ( sink.fd >= 0 /\ io # -7 /\ n < 0 )
                 => ( last'.ret = kStatusbarLogSuccess /\ out' = written(Rep(-n, 10)) )
              /\ ( sink.fd < 0 /\ sink.type = "kSinkFileOwned" /\ io # -3 /\ n < 0 )
                 => ( last'.ret = kStatusbarLogSuccess /\ out' = written(Rep(-n, 10)) )
      ]_vars

\* C26: DestroyStatusbarHandle on a handle that passes statusbar-handle validation
\* succeeds, whether or not the sink the statusbar is bound to is still alive: the slot's
\* payload is cleared, its id is 0, the slot index is pushed on the free list and the
\* caller's handle is left invalid.
C26_DestroyOfValidSucceeds ==
    [][ ( Called("DestroyStatusbarHandle")
          /\ IsValidStatusbarHandle(last'.hin) = kStatusbarLogSuccess )
        => ( /\ last'.ret = kStatusbarLogSuccess
             /\ ~last'.hout.valid
             /\ statusbar_registry'[last'.hin.idx + 1].id = 0
             /\ statusbar_registry'[last'.hin.idx + 1].positions = << >>
             /\ statusbar_registry'[last'.hin.idx + 1].percentages = << >>
             /\ Len(statusbar_free_handles') = Len(statusbar_free_handles) + 1
             /\ Back(statusbar_free_handles').idx = last'.hin.idx )
      ]_vars

\* C27: UpdateStatusbar validates the handle before it touches the registry: called with
\* a handle whose idx is not below the registry length it returns the invalid-handle
\* status (the validation code minus 2), whatever lies behind the registry, and does
\* not end in a read of _statusbar_registry[idx].
C27_UpdateValidatesFirst ==
    [][ ( Called("UpdateStatusbar") /\ last'.hin.idx >= Len(statusbar_registry) )
        => ( /\ last'.ret # Crash
             /\ last'.ret = IsValidStatusbarHandle(last'.hin) - 2 )
      ]_vars

Holds(t) == { m \in Mutexes : mutex[m] = t }

\* C28: the mutexes are requested in one order, sink write lock, statusbar-registry
\* lock, id-counter lock, on every path of every entry point: a thread that waits for
\* mutexes does not own the id-counter lock while it asks for the write lock or the
\* registry lock, nor the registry lock while it asks for the write lock.
C28_LockOrder ==
    \A t \in Threads :
        thr[t].pc \in LockPcs
        => /\ "id_count" \in Holds(t) => Wants(t) \cap WriteAndRegistry = { }
           /\ "registry" \in Holds(t) => "write" \notin Wants(t)

\* thread t is in a LogV that the library called to report an error or a warning
Reporting(t) == thr[t].pc \in { "LogGate", "LogLock" } /\ thr[t].cont # << >>

\* every percentage a statusbar stores is one the renderer accepts
StoredPercentagesInRange ==
    \A i \in 1 .. Len(statusbar_registry) :
        \A k \in 1 .. Len(statusbar_registry[i].percentages) :
            ~PercentOutOfRange(statusbar_registry[i].percentages[k])

\* C29: a thread that enters the log facade from inside UpdateStatusbar,
\* CreateStatusbarHandle or DestroyStatusbarHandle to report an error or a warning owns
\* neither the sink write lock nor the statusbar-registry lock, so the std::lock of the
\* nested LogV asks for nothing the thread owns; LogV itself and the bar renderer make
\* no such call (the renderer reports only a percentage outside [0,100], and none is
\* stored or passed on).
C29_ReportsWithoutLocks ==
    /\ \A t \in Threads : Reporting(t) => Holds(t) \cap WriteAndRegistry = { }
    /\ \A t \in Threads : thr[t].op = "Log" => thr[t].cont = << >>
    /\ StoredPercentagesInRange

\* an UpdateStatusbar that took both locks, found the percentage out of range and
\* released them is about to lock again inside LogErr while the other thread owns them
C29_ReportAfterUnlock ==
    \E t \in Threads :
        /\ thr[t].op = "UpdateStatusbar"
        /\ thr[t].pc = "LogLock"
        /\ thr[t].cont = << "Ret" >>
        /\ thr[t].ret = -7
        /\ \E u \in Threads \ { t } : Holds(u) = WriteAndRegistry

\* thread u is inside a SinkWrite or a FlushSinkHandle on the sink in slot idx
OnSink(u, idx) ==
    /\ thr[u].pc \in { "SwCheck", "SwWrite", "FlFlush" }
    /\ thr[u].sh.idx = idx
    /\ IsValidSinkHandle(thr[u].sh) = kStatusbarLogSuccess

\* C21: SinkWrite and FlushSinkHandle serialize on the mutex of the sink they target and
\* on nothing else: a thread that waits for a mutex in a write to one sink never waits
\* for a mutex that a thread writing to or flushing another sink owns.
C21_SinksDoNotContend ==
    \A t, u \in Threads :
        ( /\ t # u
          /\ thr[t].pc = "SwLock"
          /\ IsValidSinkHandle(thr[t].sh) = kStatusbarLogSuccess
          /\ \E idx \in { 0, 1 } : idx # thr[t].sh.idx /\ OnSink(u, idx) )
        => \A m \in SinkRegistryMutex : mutex[m] # u

\* the status with which bar p = << slot, bar >> of the registry is drawn on sink handle sh
RedrawErr(sh, p) ==
    LET sb == statusbar_registry[p[1]]
        j == p[2]
    IN DrawStatusbarComponent(sh, sb.percentages[j], sb.bar_sizes[j], sb.prefixes[j],
                              sb.postfixes[j], sb.spin_idxs[j], sb.positions[j]).err

\* the fatal-class bar codes: everything but success and truncation (-3)
FatalClass(err) == err \notin { kStatusbarLogSuccess, -3 }

\* the bars, by their place in the order of the redraw, that are drawn with a
\* fatal-class status on a statusbar whose latch is clear
FatalUnreported(sh) ==
    LET pairs == BarPairs(statusbar_registry, 1, 1)
    IN { k \in 1 .. Len(pairs) :
           FatalClass(RedrawErr(sh, pairs[k])) /\ ~statusbar_registry[pairs[k][1]].error_reported }

\* C31: a Log call that passes the threshold on a valid sink returns success when every
\* redraw succeeds, reports only truncation, or fails fatally on a statusbar whose latch
\* is set already; at the first redraw with a fatal-class status on a statusbar whose
\* latch is clear it sets that latch, draws no further bar and returns the bar code
\* minus 5.
C31_LogEscalatesFirstFatal ==
    [][ LogPassing
        => LET pairs == BarPairs(statusbar_registry, 1, 1)
               fatal == FatalUnreported(last'.sh)
               first == CHOOSE k \in fatal : \A m \in fatal : k <= m
           IN IF fatal = { }
              THEN /\ last'.ret = kStatusbarLogSuccess
                   /\ Len(SelectSeq(out', IsBar)) = Len(pairs)
                   /\ \A i \in 1 .. Len(statusbar_registry) :
                         statusbar_registry'[i].error_reported = statusbar_registry[i].error_reported
              ELSE /\ last'.ret = RedrawErr(last'.sh, pairs[first]) - 5
                   /\ last'.ret # kStatusbarLogSuccess
                   /\ statusbar_registry'[pairs[first][1]].error_reported
                   /\ Len(SelectSeq(out', IsBar)) = first
                   /\ \A i \in 1 .. Len(statusbar_registry) :
                         i # pairs[first][1]
                         => statusbar_registry'[i].error_reported = statusbar_registry[i].error_reported
      ]_vars

\* a Log call went past the bars of a first statusbar whose latch was set and stopped
\* at the first bar of the second, whose latch it set
C31_StoppedAtSecondStatusbar ==
    /\ last.op = "Log"
    /\ last.ret < -5
    /\ Len(statusbar_registry) = 2
    /\ statusbar_registry[1].error_reported
    /\ statusbar_registry[2].error_reported
    /\ statusbar_registry[1].id # 0
    /\ Len(SelectSeq(out, IsBar)) = Len(statusbar_registry[1].positions) + 1

\* C32: a bar line is cut only on a sink that is an interactive terminal: a line longer
\* than the width W is written cut to W - 1 characters, with the truncation status -3
\* when the width was read; when the width query fails W is 80 and the status is a
\* fatal-class code; on any other sink the line is written in full with status success.
C32_TruncatesOnTerminalOnly ==
    [][ Rendered
        => LET line == RenderedLine(out')
               full == BarLine(last'.pct, last'.bidx, last'.lens[1], last'.lens[2], last'.lens[3])
               W == IF env.outTty THEN env.cols ELSE DefaultCols
           IN IF ~SinkIsTty(last'.sh)
              THEN line = full /\ last'.ret = kStatusbarLogSuccess
              ELSE /\ line = IF Len(full) > W THEN SubSeq(full, 1, W - 1) ELSE full
                   /\ IF ~env.outTty THEN FatalClass(last'.ret)
                      ELSE last'.ret = IF Len(full) > W THEN -3 ELSE kStatusbarLogSuccess
      ]_vars

IsMove(e) == e.k \in { "up", "down" }

\* the newlines of a line
Newlines(txt) == Cardinality({ i \in 1 .. Len(txt) : txt[i] = 10 })

\* the rows by which the output of a call leaves the cursor lower: the newlines written
\* to move down and those of the log lines, less the rows moved up
RECURSIVE Rows(_)
Rows(o) ==
    IF o = << >> THEN 0
    ELSE LET e == Head(o)
         IN (IF e.k = "down" THEN e.n
             ELSE IF e.k = "up" THEN 0 - e.n
             ELSE IF e.k = "log" THEN Newlines(e.txt)
             ELSE 0) + Rows(Tail(o))

\* every move up is followed, before any other move, by a move down of as many rows
MovesPaired(o) ==
    LET moves == SelectSeq(o, IsMove)
    IN /\ Len(moves) % 2 = 0
       /\ \A i \in 1 .. Len(moves) :
             IF i % 2 = 1 THEN moves[i].k = "up"
             ELSE moves[i].k = "down" /\ moves[i].n = moves[i - 1].n

StatusbarCall ==
    Called("CreateStatusbarHandle") \/ Called("UpdateStatusbar") \/ Called("DestroyStatusbarHandle")

PerBarArrays(sb) ==
    << sb.percentages, sb.positions, sb.bar_sizes, sb.prefixes, sb.postfixes, sb.spin_idxs >>

\* slot sb holds a statusbar whose arrays have one length and whose percentages are
\* in [0,100], or it is a destroyed slot: id 0 and every array empty
SlotWellFormed(sb) ==
    IF sb.id # 0
    THEN /\ \A a \in 1 .. 6 : Len(PerBarArrays(sb)[a]) = Len(sb.positions)
         /\ \A k \in 1 .. Len(sb.percentages) :
               sb.percentages[k] >= 0 /\ sb.percentages[k] <= 100
    ELSE \A a \in 1 .. 6 : PerBarArrays(sb)[a] = << >>

\* C34: in every reachable state the six per-bar arrays of every live statusbar have one
\* length, the one they were created with, and every stored percentage is in [0,100];
\* every destroyed slot has id 0 and its six arrays empty.
C34_SlotsWellFormed ==
    [][ /\ \A i \in 1 .. Len(statusbar_registry') : SlotWellFormed(statusbar_registry'[i])
        /\ \A i \in 1 .. Len(statusbar_registry) :
              ( statusbar_registry[i].id # 0 /\ statusbar_registry'[i].id = statusbar_registry[i].id )
              => Len(statusbar_registry'[i].positions) = Len(statusbar_registry[i].positions)
      ]_vars

\* a handle as a caller holds it who never writes a field: zero-initialised, or as a
\* call of the library left it
CallerHeld(h) == h.valid => h.id # 0

\* C35: as long as the caller passes handles as the library issued or left them (or
\* zero-initialised ones), every handle a statusbar call hands back is again such a
\* handle, so the validation of a handle never ends in its zero-id status -4, neither
\* inside CreateStatusbarHandle nor as the status DestroyStatusbarHandle (-4) or
\* UpdateStatusbar (-4 - 2) return.
C35_ZeroIdStatusUnreachable ==
    [][ ( StatusbarCall /\ CallerHeld(last'.hin) )
        => ( /\ CallerHeld(last'.hout)
             /\ IsValidStatusbarHandle(last'.hin) # -4
             /\ IsValidStatusbarHandleIn(statusbar_registry', last'.hin) # -4
             /\ IsValidStatusbarHandleIn(statusbar_registry', last'.hout) # -4
             /\ last'.op = "DestroyStatusbarHandle" => last'.ret # -4
             /\ last'.op = "UpdateStatusbar" => last'.ret # -6 )
      ]_vars

\* the nearest case: the copy of a handle whose slot was destroyed, id 0 in the slot,
\* is refused as a mismatch (-3)
C35_CopyOfDestroyedRefused ==
    /\ last.op = "DestroyStatusbarHandle"
    /\ last.hin.valid
    /\ last.hin.id # 0
    /\ last.hin.idx < Len(statusbar_registry)
    /\ statusbar_registry[last.hin.idx + 1].id = 0
    /\ last.ret = -3

\* the slots of a registry that hold a live object
LiveSlots(reg) == { i \in 1 .. Len(reg) : reg[i].id # 0 }

\* C36: with several threads creating statusbars at once, each with a handle of its
\* own, the live statusbar slots never exceed kMaxStatusbarHandles, and the live sink
\* slots never exceed kMaxSinkHandles.
C36_CapacityUnderThreads ==
    /\ Cardinality(LiveSlots(statusbar_registry)) <= kMaxStatusbarHandles
    /\ Cardinality(LiveSlots(sink_registry)) <= kMaxSinkHandles

\* how often slot index idx is on the statusbar free list
TimesFree(idx) ==
    Cardinality({ k \in 1 .. Len(statusbar_free_handles) : statusbar_free_handles[k].idx = idx })

\* C37: in every reachable state, two threads destroying copies of one valid handle
\* included, a slot index is on the statusbar free list at most once and only slots
\* with id 0 are on it; a destroy that is about to return success has put its slot
\* there exactly once, so of two concurrent destroys of one statusbar one succeeds.
C37_FreeListHasNoDuplicates ==
    /\ \A k \in 1 .. Len(statusbar_free_handles) :
          /\ TimesFree(statusbar_free_handles[k].idx) = 1
          /\ statusbar_free_handles[k].idx < Len(statusbar_registry)
          /\ statusbar_registry[statusbar_free_handles[k].idx + 1].id = 0
    /\ \A t \in Threads : thr[t].pc = "DesUnlock" => TimesFree(thr[t].h.idx) = 1

\* C38: on every return path of Log, CreateStatusbarHandle, UpdateStatusbar and
\* DestroyStatusbarHandle each lock taken is released exactly once: a thread that is
\* out of its call owns no mutex, and no thread has unlocked a lock it did not own
\* (the std::system_error of unique_lock::unlock), the path on which UpdateStatusbar
\* reports a render error included.
C38_LocksReleasedOnce ==
    \A t \in Threads :
        /\ thr[t].pc \in { "idle", "thrown" } => Holds(t) = { }
        /\ thr[t].pc # "thrown"

Created(t) ==
    /\ thr[t].pc = "idle"
    /\ thr[t].calls > 0
    /\ thr[t].ret = kStatusbarLogSuccess
    /\ thr[t].h.valid

\* C40: however the calls of the threads interleave, the handles of two statusbars that
\* were created and not destroyed since name different slots and, as long as the id
\* counter has not wrapped, carry different ids, the statusbars in the registry carry
\* different ids, and no two handles with different ids validate against one slot.
C40_DistinctSlotsAndIds ==
    /\ \A t, u \in Threads :
          ( t # u /\ Created(t) /\ Created(u) )
          => /\ thr[t].h.idx # thr[u].h.idx
             /\ ~wrapped.bar => thr[t].h.id # thr[u].h.id
    /\ ~wrapped.bar
       => \A i, j \in LiveSlots(statusbar_registry) :
             i # j => statusbar_registry[i].id # statusbar_registry[j].id
    /\ \A t, u \in Threads :
          ( /\ IsValidStatusbarHandle(thr[t].h) = kStatusbarLogSuccess
            /\ IsValidStatusbarHandle(thr[u].h) = kStatusbarLogSuccess
            /\ thr[t].h.id # thr[u].h.id )
          => thr[t].h.idx # thr[u].h.idx

====
